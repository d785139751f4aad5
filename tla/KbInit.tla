------------------------------- MODULE KbInit -------------------------------
(***************************************************************************)
(* The i586 keyboard driver, src/source/drivers/i586/keyb/kbmain.c: main's *)
(* initialisation of the 8042 controller through its status/command port  *)
(* 0x64 and data port 0x60, the polled waits kb_waitInBuf/kb_waitOutBuf    *)
(* with their 60 ms timeout in 20 ms sleeps, and kbIntrptHandler, run on   *)
(* SIG_INTRPT_KB once main has installed it.                               *)
(*                                                                         *)
(* The controller is hardware.  It is modelled as the driver's comments    *)
(* and defines describe it:                                                *)
(*   - a written byte sets STATUS_INBUF_FULL until the controller takes it;*)
(*   - 0xAA replies 0x55, 0xAB replies 0x00, and 0x60 takes the next data  *)
(*     byte as the command byte, whose CMD_EN_OUTBUF_INTRPT raises IRQ 1   *)
(*     when a byte enters the output buffer;                               *)
(*   - 0xF4 makes the keyboard reply ACK and start sending scancodes;      *)
(*   - one byte at a time stands in the output buffer (STATUS_OUTBUF_FULL) *)
(*     until port 0x60 is read, and reading an empty buffer returns the    *)
(*     last byte again.                                                    *)
(* A present controller finishes each command within ReplySleeps of the   *)
(* driver's sleeps, but may crash and stop answering.  An absent           *)
(* controller reads as 0xFF on both ports.  IRQ 1 is an edge, and the      *)
(* kernel turns it into SIG_INTRPT_KB for the process that announced a     *)
(* handler, or drops it.                                                   *)
(***************************************************************************)
EXTENDS Naturals, Sequences, Bitwise

CONSTANTS
  MaxKeys,      \* key presses during a behaviour
  ReplySleeps,  \* sleeps within which a present controller answers
  CanCrash,     \* the controller may stop answering
  Absent        \* no controller: both ports read 0xFF

TIMEOUT == 60
SLEEP_TIME == 20

\* Bytes, named by what they are: the self-test and interface-test replies
\* 0x55 and 0x00, the keyboard's ACK 0xFA, a scancode, and 0xFF.
Bytes == {"x55", "x00", "ACK", "SC", "xFF"}
\* The commands and data bytes main writes: 0xAA, 0xAB, 0x60, the command
\* byte, 0xF4.
Cmds == {"AA", "AB", "60", "CB", "F4"}

\* Bits of the controller's command byte main sets.
CMD_IBM_COMPAT == 2^6
CMD_INHIBIT_OVERWRITE == 2^3
CMD_EN_OUTBUF_INTRPT == 2^0

\* The command byte "CB": CMD_EN_OUTBUF_INTRPT | CMD_INHIBIT_OVERWRITE |
\* CMD_IBM_COMPAT.
CommandByte == CMD_EN_OUTBUF_INTRPT | CMD_INHIBIT_OVERWRITE | CMD_IBM_COMPAT

VARIABLES
  pc,         \* where main is
  ret,        \* where a kb_wait* call returns to
  elapsed,    \* the elapsed of the running kb_wait* call
  why,        \* the error() main stopped at, "none" if none
  handler,    \* SIG_INTRPT_KB has kbIntrptHandler
  hpend,      \* a SIG_INTRPT_KB is pending for the driver
  got,        \* the bytes kbIntrptHandler passed to kb_set1_getKeycode
  outFull,    \* STATUS_OUTBUF_FULL
  outByte,    \* the byte at port 0x60
  inFull,     \* STATUS_INBUF_FULL
  inCmd,      \* the byte being taken
  pend,       \* replies and scancodes waiting for the output buffer
  intrEn,     \* CMD_EN_OUTBUF_INTRPT is set in the command byte
  scanning,   \* the keyboard sends scancodes
  keys,       \* keys pressed
  irq,        \* IRQ 1 raised and not yet handled by the kernel
  crashed,    \* the controller has stopped
  lag         \* driver sleeps since main's last write

drv == <<pc, ret, elapsed, why, handler, hpend, got>>
ctl == <<outFull, outByte, inFull, inCmd, pend, intrEn, scanning, keys, irq,
         crashed, lag>>
vars == <<drv, ctl>>

(* inbyte(IOPORT_KB_CTRL) & STATUS_OUTBUF_FULL, & STATUS_INBUF_FULL.       *)
ObfSeen == Absent \/ outFull
IbfSeen == Absent \/ inFull

(* inbyte(IOPORT_KB_DATA): the byte, which empties the output buffer.      *)
DataByte == IF Absent THEN "xFF" ELSE outByte
ReadData == outFull' = FALSE

(* outbyte to either port: the byte waits in the input buffer; one written *)
(* before the last was taken replaces it.                                  *)
Write(c) ==
  /\ inFull' = ~Absent
  /\ inCmd' = c
  /\ lag' = 0

(* A kb_wait* call: do ... while(cond && elapsed < TIMEOUT).               *)
CallWait(kind, r) ==
  /\ pc' = kind
  /\ ret' = r
  /\ elapsed' = 0

Fail(w) == pc' = "failed" /\ why' = w

(* The controller owes an answer to the driver.                            *)
Owed == ~Absent /\ ~crashed /\ (inFull \/ (pend # <<>> /\ ~outFull))

Init ==
  /\ pc = "start" /\ ret = "start" /\ elapsed = 0 /\ why = "none"
  /\ handler = FALSE /\ hpend = FALSE /\ got = <<>>
  /\ outFull \in BOOLEAN
  /\ outByte \in {"SC", "x00"}
  /\ inFull = FALSE /\ inCmd = "CB" /\ pend = <<>>
  /\ intrEn \in BOOLEAN /\ scanning = FALSE /\ keys = 0 /\ irq = FALSE
  /\ crashed = FALSE /\ lag = 0

(* main: the three reqport calls, error() if one fails, then               *)
(* kb_waitInBuf.                                                           *)
ReqPorts(ok) ==
  /\ pc = "start"
  /\ IF ok THEN CallWait("waitIn", "flush") /\ UNCHANGED why
     ELSE Fail("reqport") /\ UNCHANGED <<ret, elapsed>>
  /\ UNCHANGED <<handler, hpend, got, ctl>>

(* Mutant: the wait tests the status once and returns.                     *)
PollOnce ==
  /\ pc \in {"waitIn", "waitOut"}
  /\ pc' = ret
  /\ UNCHANGED <<ret, elapsed, why, handler, hpend, got, ctl>>

(* Mutant: kb_waitInBuf loops while the input buffer is full, without      *)
(* the timeout test.                                                       *)
PollNoTimeout ==
  /\ pc \in {"waitIn", "waitOut"}
  /\ LET done == IF pc = "waitIn" THEN ~IbfSeen ELSE ObfSeen
     IN IF done
        THEN pc' = ret /\ UNCHANGED <<elapsed, lag>>
        ELSE /\ Owed => lag < ReplySleeps
             /\ elapsed' = elapsed + SLEEP_TIME
             /\ lag' = lag + 1
             /\ IF pc = "waitOut" /\ elapsed + SLEEP_TIME >= TIMEOUT
                THEN pc' = ret ELSE UNCHANGED pc
  /\ UNCHANGED <<ret, why, handler, hpend, got, outFull, outByte, inFull,
                 inCmd, pend, intrEn, scanning, keys, irq, crashed>>

(* Mutant: the sleep is not added to elapsed.                             *)
PollNoElapsed ==
  /\ pc \in {"waitIn", "waitOut"}
  /\ LET done == IF pc = "waitIn" THEN ~IbfSeen ELSE ObfSeen
     IN IF done
        THEN pc' = ret /\ UNCHANGED lag
        ELSE /\ Owed => lag < ReplySleeps
             /\ lag' = IF lag < TIMEOUT \div SLEEP_TIME THEN lag + 1 ELSE lag
             /\ UNCHANGED pc
  /\ UNCHANGED <<ret, elapsed, why, handler, hpend, got, outFull, outByte,
                 inFull, inCmd, pend, intrEn, scanning, keys, irq, crashed>>

(* One pass of the do-while of kb_waitInBuf / kb_waitOutBuf: read the      *)
(* status; if not yet as wanted, sleep(SLEEP_TIME) and add it to elapsed;  *)
(* leave when as wanted or elapsed >= TIMEOUT.  Time only passes while     *)
(* an answering controller is within its ReplySleeps.                      *)
Poll ==
  /\ pc \in {"waitIn", "waitOut"}
  /\ LET done == IF pc = "waitIn" THEN ~IbfSeen ELSE ObfSeen
     IN IF done
        THEN pc' = ret /\ UNCHANGED <<elapsed, lag>>
        ELSE /\ Owed => lag < ReplySleeps
             /\ elapsed' = elapsed + SLEEP_TIME
             /\ lag' = lag + 1
             /\ IF elapsed + SLEEP_TIME >= TIMEOUT
                THEN pc' = ret ELSE UNCHANGED pc
  /\ UNCHANGED <<ret, why, handler, hpend, got, outFull, outByte, inFull,
                 inCmd, pend, intrEn, scanning, keys, irq, crashed>>

(* while(inbyte(CTRL) & STATUS_OUTBUF_FULL) inbyte(DATA); then the self    *)
(* test: outbyte(CTRL, 0xAA) and kb_waitOutBuf.                            *)
Flush ==
  /\ pc = "flush"
  /\ IF ObfSeen
     THEN ReadData /\ UNCHANGED <<pc, ret, elapsed, inFull, inCmd, lag>>
     ELSE CallWait("waitOut", "selftest") /\ Write("AA") /\ UNCHANGED outFull
  /\ UNCHANGED <<why, handler, hpend, got, outByte, pend, intrEn, scanning,
                 keys, irq, crashed>>

(* Read the reply; error() unless 0x55, else the interface test:           *)
(* outbyte(CTRL, 0xAB) and kb_waitOutBuf.                                  *)
SelfTest ==
  /\ pc = "selftest"
  /\ ReadData
  /\ IF DataByte # "x55"
     THEN Fail("selftest") /\ UNCHANGED <<ret, elapsed, inFull, inCmd, lag>>
     ELSE CallWait("waitOut", "iftest") /\ Write("AB") /\ UNCHANGED why
  /\ UNCHANGED <<handler, hpend, got, outByte, pend, intrEn, scanning, keys,
                 irq, crashed>>

(* Read the reply; error() unless 0x00, else outbyte(CTRL, 0x60) and       *)
(* kb_waitInBuf.                                                           *)
IfTest ==
  /\ pc = "iftest"
  /\ ReadData
  /\ IF DataByte # "x00"
     THEN Fail("iftest") /\ UNCHANGED <<ret, elapsed, inFull, inCmd, lag>>
     ELSE CallWait("waitIn", "cmdbyte") /\ Write("60") /\ UNCHANGED why
  /\ UNCHANGED <<handler, hpend, got, outByte, pend, intrEn, scanning, keys,
                 irq, crashed>>

(* outbyte(DATA, CMD_EN_OUTBUF_INTRPT | ...) and kb_waitInBuf.             *)
CmdByte ==
  /\ pc = "cmdbyte"
  /\ CallWait("waitIn", "enable") /\ Write("CB")
  /\ UNCHANGED <<why, handler, hpend, got, outFull, outByte, pend, intrEn,
                 scanning, keys, irq, crashed>>

(* Mutant: no kb_waitOutBuf after 0xF4.                                   *)
EnableNoWait ==
  /\ pc = "enable"
  /\ pc' = "clear" /\ Write("F4")
  /\ UNCHANGED <<ret, elapsed, why, handler, hpend, got, outFull, outByte,
                 pend, intrEn, scanning, keys, irq, crashed>>

(* Enable the keyboard: outbyte(DATA, 0xF4) and kb_waitOutBuf.             *)
Enable ==
  /\ pc = "enable"
  /\ CallWait("waitOut", "clear") /\ Write("F4")
  /\ UNCHANGED <<why, handler, hpend, got, outFull, outByte, pend, intrEn,
                 scanning, keys, irq, crashed>>

(* "clear output buffer": kbdata = inbyte(IOPORT_KB_DATA).                 *)
Clear ==
  /\ pc = "clear"
  /\ ReadData
  /\ pc' = "signal"
  /\ UNCHANGED <<ret, elapsed, why, handler, hpend, got, outByte, inFull,
                 inCmd, pend, intrEn, scanning, keys, irq, crashed, lag>>

(* signal(SIG_INTRPT_KB, kbIntrptHandler), error() on SIG_ERR, then        *)
(* keyb_driverLoop.                                                        *)
Announce(ok) ==
  /\ pc = "signal"
  /\ IF ok THEN pc' = "loop" /\ handler' = TRUE /\ UNCHANGED why
     ELSE Fail("signal") /\ UNCHANGED handler
  /\ UNCHANGED <<ret, elapsed, hpend, got, ctl>>

(* kbIntrptHandler: return unless STATUS_OUTBUF_FULL, else read the        *)
(* scancode and hand it to kb_set1_getKeycode.                             *)
KbIntrptHandler ==
  /\ hpend
  /\ hpend' = FALSE
  /\ IF ObfSeen
     THEN ReadData /\ got' = Append(got, DataByte)
     ELSE UNCHANGED <<outFull, got>>
  /\ UNCHANGED <<pc, ret, elapsed, why, handler, outByte, inFull, inCmd, pend,
                 intrEn, scanning, keys, irq, crashed, lag>>

(* The kernel takes IRQ 1: a signal for the announced handler, or none.    *)
Irq ==
  /\ irq
  /\ irq' = FALSE
  /\ hpend' = (hpend \/ handler)
  /\ UNCHANGED <<pc, ret, elapsed, why, handler, got, outFull, outByte, inFull,
                 inCmd, pend, intrEn, scanning, keys, crashed, lag>>

(* The controller takes the byte in its input buffer.                      *)
Take ==
  /\ ~Absent /\ ~crashed /\ inFull
  /\ inFull' = FALSE
  /\ pend' = CASE inCmd = "AA" -> Append(pend, "x55")
               [] inCmd = "AB" -> Append(pend, "x00")
               [] inCmd = "F4" -> Append(pend, "ACK")
               [] OTHER -> pend
  /\ intrEn' = IF inCmd = "CB"
               THEN (CommandByte & CMD_EN_OUTBUF_INTRPT) # 0 ELSE intrEn
  /\ scanning' = (scanning \/ inCmd = "F4")
  /\ UNCHANGED <<drv, outFull, outByte, inCmd, keys, irq, crashed, lag>>

(* The next byte enters the empty output buffer, raising IRQ 1 if the      *)
(* command byte enables it.                                                *)
Deliver ==
  /\ ~Absent /\ ~crashed /\ ~outFull /\ pend # <<>>
  /\ outFull' = TRUE
  /\ outByte' = Head(pend)
  /\ pend' = Tail(pend)
  /\ irq' = (irq \/ intrEn)
  /\ UNCHANGED <<drv, inFull, inCmd, intrEn, scanning, keys, crashed, lag>>

(* A key is pressed on a scanning keyboard.                                *)
KeyPress ==
  /\ ~crashed /\ scanning /\ keys < MaxKeys
  /\ pend' = Append(pend, "SC")
  /\ keys' = keys + 1
  /\ UNCHANGED <<drv, outFull, outByte, inFull, inCmd, intrEn, scanning, irq,
                 crashed, lag>>

(* The controller stops answering.                                         *)
Crash ==
  /\ CanCrash /\ ~Absent /\ ~crashed
  /\ crashed' = TRUE
  /\ UNCHANGED <<drv, outFull, outByte, inFull, inCmd, pend, intrEn, scanning,
                 keys, irq, lag>>

Main ==
  \/ \E ok \in BOOLEAN : ReqPorts(ok) \/ Announce(ok)
  \/ Poll \/ Flush \/ SelfTest \/ IfTest \/ CmdByte \/ Enable \/ Clear

Next ==
  \/ Main \/ KbIntrptHandler \/ Irq
  \/ Take \/ Deliver \/ KeyPress \/ Crash

Spec == Init /\ [][Next]_vars

(* main and the handler run when they can, the controller answers, and the *)
(* kernel handles a raised IRQ; nobody has to press a key.                 *)
FairSpec ==
  /\ Spec
  /\ WF_vars(Main) /\ WF_vars(KbIntrptHandler) /\ WF_vars(Irq)
  /\ WF_vars(Take) /\ WF_vars(Deliver)

TypeOK ==
  /\ pc \in {"start", "waitIn", "waitOut", "flush", "selftest", "iftest",
             "cmdbyte", "enable", "clear", "signal", "loop", "failed"}
  /\ elapsed \in 0..TIMEOUT
  /\ why \in {"none", "reqport", "selftest", "iftest", "signal"}
  /\ got \in Seq(Bytes) /\ Len(got) <= MaxKeys + 1
  /\ outByte \in Bytes /\ inCmd \in Cmds
  /\ pend \in Seq(Bytes) /\ Len(pend) <= MaxKeys + 1
  /\ keys \in 0..MaxKeys /\ lag \in 0..TIMEOUT \div SLEEP_TIME
  /\ {handler, hpend, outFull, inFull, intrEn, scanning, irq, crashed}
       \subseteq BOOLEAN

(* The self test and interface test fail only on a controller that has     *)
(* stopped: the polled waits give a controller that answers within         *)
(* ReplySleeps sleeps time enough, so main never reads a stale byte and    *)
(* error()s on a working keyboard.                                         *)
NoFalseFailure ==
  why \in {"selftest", "iftest"} => crashed

(* kbIntrptHandler hands kb_set1_getKeycode only scancodes: the ACK of     *)
(* 0xF4 and the test replies are read by main, never left in the output    *)
(* buffer for the handler to take as a key.                                *)
OnlyScancodesHandled ==
  \A i \in 1..Len(got) : got[i] = "SC"

(* main's initialisation ends, in keyb_driverLoop or in error(), whatever  *)
(* the controller does: every wait is bounded by TIMEOUT.                  *)
InitTerminates ==
  <>(pc \in {"loop", "failed"})

(* Every key pressed once the keyboard scans reaches kbIntrptHandler,      *)
(* unless main stops in error().                                           *)
KeyEventuallyHandled ==
  \A n \in 1..MaxKeys : keys >= n ~> (Len(got) >= n \/ pc = "failed")

====
