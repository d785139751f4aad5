------------------------------ MODULE KbService ------------------------------
(***************************************************************************)
(* The keyboard service, src/services/keyboard/kbmain.c: main registers    *)
(* the service, requests the PIC and keyboard ports, opens its own pipe,   *)
(* announces kbIntrptHandler for SIG_INTRPT_KB, resets the keyboard        *)
(* (outByte 0xFF) and polls port 0x60 with yield() until it reads 0xAA,    *)
(* then waits forever.  kbIntrptHandler reads port 0x60, writes the key    *)
(* into the pipe and acknowledges the interrupt at the PIC itself.         *)
(*                                                                         *)
(* The hardware, as the code relies on it: a byte from the keyboard        *)
(* latches in port 0x60 and raises IRQ 1 at the PIC, and the next byte     *)
(* waits until port 0x60 has been read; the PIC delivers IRQ 1 only after  *)
(* the previous one was acknowledged, holding one raised in the meantime.  *)
(* The reset answers ACK (0xFA) then BAT (0xAA), after which keys come.    *)
(* The kernel queues one SIG_INTRPT_KB per delivered IRQ for the handler.  *)
(***************************************************************************)
EXTENDS Integers, Sequences

CONSTANTS
  Keys   \* the scancodes the user types, in order, all distinct

VARIABLES
  pc,       \* where main is
  handler,  \* kbIntrptHandler is announced
  written,  \* the bytes the handler passed to kb_set1_getKeycode
  sigs,     \* SIG_INTRPT_KB signals queued for the handler
  latch,    \* the byte in port 0x60
  obf,      \* a byte is in port 0x60 that nobody has read yet
  pend,     \* bytes the keyboard will send
  typed,    \* keys typed so far
  sent,     \* keys that reached port 0x60, in order
  irr,      \* IRQ 1 raised at the PIC, not yet delivered
  isr,      \* IRQ 1 delivered and not yet acknowledged
  idleAt    \* Len(sent) when main reached its wait loop, or -1

vars == <<pc, handler, written, sigs, latch, obf, pend, typed, sent, irr,
          isr, idleAt>>
hw == <<latch, obf, pend, typed, sent, irr, isr>>

(* main's set-up calls in order; each returns 1 from main on failure.      *)
StepAfter(s) ==
  CASE s = "reg" -> "pic"     \* regService
    [] s = "pic" -> "ctrl"    \* requestIOPort(IOPORT_PIC)
    [] s = "ctrl" -> "open"   \* requestIOPort(IOPORT_KB_CTRL)
    [] s = "open" -> "sig"    \* open("services:/keyboard")
    [] s = "sig" -> "reset"   \* setSigHandler(SIG_INTRPT_KB)

Init ==
  /\ pc = "reg" /\ handler = FALSE /\ written = <<>> /\ sigs = 0
  /\ latch = "none" /\ obf = FALSE /\ pend = <<>>
  /\ typed = 0 /\ sent = <<>> /\ irr = FALSE /\ isr = FALSE /\ idleAt = -1

(* Mutant: a failing setSigHandler is reported but main goes on.          *)
SetupIgnoreSigFail(ok) ==
  /\ pc \in {"reg", "pic", "ctrl", "open", "sig"}
  /\ pc' = IF ok \/ pc = "sig" THEN StepAfter(pc) ELSE "exit"
  /\ handler' = (ok /\ pc = "sig")
  /\ UNCHANGED <<written, sigs, idleAt, hw>>

(* One set-up call of main: on success the next, otherwise return 1.       *)
Setup(ok) ==
  /\ pc \in {"reg", "pic", "ctrl", "open", "sig"}
  /\ pc' = IF ok THEN StepAfter(pc) ELSE "exit"
  /\ handler' = (ok /\ pc = "sig")
  /\ UNCHANGED <<written, sigs, idleAt, hw>>

(* "reset keyboard": outByte(IOPORT_KB_CTRL, 0xff).                        *)
Reset ==
  /\ pc = "reset"
  /\ pc' = "poll"
  /\ pend' = pend \o <<"ACK", "BAT">>
  /\ UNCHANGED <<handler, written, sigs, idleAt, latch, obf, typed, sent, irr,
                 isr>>

(* Mutant: the loop repeats the reset until it reads 0xAA.                *)
PollResendReset ==
  /\ pc = "poll"
  /\ obf' = FALSE
  /\ IF latch = "BAT"
     THEN pc' = "idle" /\ idleAt' = Len(sent) /\ UNCHANGED pend
     ELSE pend' = pend \o <<"ACK", "BAT">> /\ UNCHANGED <<pc, idleAt>>
  /\ UNCHANGED <<handler, written, sigs, latch, typed, sent, irr, isr>>

(* while(inByte(IOPORT_KB_CTRL) != 0xaa) yield(); then wait forever.       *)
Poll ==
  /\ pc = "poll"
  /\ obf' = FALSE
  /\ IF latch = "BAT"
     THEN pc' = "idle" /\ idleAt' = Len(sent)
     ELSE UNCHANGED <<pc, idleAt>>
  /\ UNCHANGED <<handler, written, sigs, latch, pend, typed, sent, irr, isr>>

(* kbIntrptHandler: inByte(IOPORT_KB_CTRL), kb_set1_getKeycode and the     *)
(* write into the pipe, then outByte(IOPORT_PIC, PIC_ICW1).                *)
KbIntrptHandler ==
  /\ sigs > 0
  /\ sigs' = sigs - 1
  /\ written' = Append(written, latch)
  /\ obf' = FALSE
  /\ isr' = FALSE
  /\ UNCHANGED <<pc, handler, idleAt, latch, pend, typed, sent, irr>>

(* The keyboard sends its next byte once port 0x60 has been read; it       *)
(* raises IRQ 1.                                                           *)
Deliver ==
  /\ ~obf /\ pend # <<>>
  /\ latch' = Head(pend)
  /\ pend' = Tail(pend)
  /\ obf' = TRUE
  /\ irr' = TRUE
  /\ sent' = IF Head(pend) \in {"ACK", "BAT"} THEN sent
             ELSE Append(sent, Head(pend))
  /\ UNCHANGED <<pc, handler, written, sigs, idleAt, typed, isr>>

(* The user types the next key, once the keyboard has passed its BAT.      *)
Type ==
  /\ typed < Len(Keys)
  /\ latch = "BAT" \/ sent # <<>>
  /\ pend' = Append(pend, Keys[typed + 1])
  /\ typed' = typed + 1
  /\ UNCHANGED <<pc, handler, written, sigs, idleAt, latch, obf, sent, irr,
                 isr>>

(* The PIC delivers a raised IRQ 1 once the last one is acknowledged; the  *)
(* kernel queues SIG_INTRPT_KB for the announced handler.                  *)
Irq ==
  /\ irr /\ ~isr /\ handler
  /\ irr' = FALSE
  /\ isr' = TRUE
  /\ sigs' = sigs + 1
  /\ UNCHANGED <<pc, handler, written, idleAt, latch, obf, pend, typed, sent>>

Next ==
  \/ \E ok \in BOOLEAN : Setup(ok)
  \/ Reset \/ Poll \/ KbIntrptHandler
  \/ Deliver \/ Type \/ Irq

Spec == Init /\ [][Next]_vars

(* The service is scheduled, the keyboard sends, the PIC delivers.         *)
FairSpec ==
  /\ Spec
  /\ WF_vars(Reset) /\ WF_vars(Poll) /\ WF_vars(KbIntrptHandler)
  /\ WF_vars(Deliver) /\ WF_vars(Irq)

Bytes == {"none", "ACK", "BAT"} \cup {Keys[i] : i \in 1..Len(Keys)}

TypeOK ==
  /\ pc \in {"reg", "pic", "ctrl", "open", "sig", "reset", "poll", "idle", "exit"}
  /\ handler \in BOOLEAN /\ obf \in BOOLEAN /\ irr \in BOOLEAN /\ isr \in BOOLEAN
  /\ written \in Seq(Bytes) /\ sent \in Seq(Bytes)
  /\ pend \in Seq(Bytes) /\ Len(pend) <= Len(Keys) + 2
  /\ latch \in Bytes
  /\ sigs \in 0..1 /\ typed \in 0..Len(Keys) /\ idleAt \in -1..Len(Keys)

(* Every key that reaches port 0x60 after main waits reaches the handler.  *)
LateKeysEventuallyHandled ==
  \A k \in 1..Len(Keys) :
    (idleAt \in 0..k - 1 /\ Len(sent) >= k)
      ~> \E i \in 1..Len(written) : written[i] = Keys[k]

(* kb_set1_getKeycode sees each typed key at most once, so no key is     *)
(* written into the pipe twice.                                            *)
KeysHandledOnce ==
  \A i, j \in 1..Len(written) :
    i < j /\ written[i] = written[j] => written[i] \in {"none", "ACK", "BAT"}

====
