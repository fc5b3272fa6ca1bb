--------------------------- MODULE UnusedDojoProofs ---------------------------
(* Safety of closing unused Dojos, for any number of connections. *)
EXTENDS UnusedDojo, TLAPS

(* The inductive invariant: what each kind of use leaves behind in the     *)
(* latch or the attachment registry, and what a close that holds the       *)
(* transaction knows.                                                      *)
UsesRecorded ==
  /\ \A t \in Typist : typing[t] = "accepted" => latch = "used"
  /\ \A w \in Window : attaching[w] = "told" => w \in attached
  /\ capture = "captured" => latch = "used"

ClosersAgree ==
  \A c \in Closer :
    /\ closing[c] \in {"looking", "claimed"} => holder = {c} /\ dojo = TRUE /\ organized = FALSE
    /\ closing[c] = "claimed" => latch = "retiring"

ClaimGuards ==
  /\ latch = "retiring" =>
       /\ attached = {} /\ organized = FALSE
       /\ dojo = FALSE \/ \E c \in Closer : closing[c] = "claimed"
  /\ dojo = FALSE => latch = "retiring"

IInv == TypeOK /\ UsesRecorded /\ ClosersAgree /\ ClaimGuards

-----------------------------------------------------------------------------
(* The invariant holds when the Dojo has just been created. *)
LEMMA InitHolds == Init => IInv
BY DEF Init, IInv, TypeOK, UsesRecorded, ClosersAgree, ClaimGuards

(* Every step of every connection and of the actor keeps the invariant. *)
LEMMA NextKeeps == IInv /\ [Next]_vars => IInv'
<1> SUFFICES ASSUME IInv, [Next]_vars PROVE IInv'
  OBVIOUS
<1> USE DEF IInv
<1>1. ASSUME NEW t \in Typist, Input(t) PROVE IInv'
  <2>1. TypeOK'
    BY <1>1 DEF Input, RecordUse, TypeOK, UsesRecorded, ClosersAgree, ClaimGuards
  <2>2. UsesRecorded'
    BY <1>1 DEF Input, RecordUse, TypeOK, UsesRecorded, ClosersAgree, ClaimGuards
  <2>3. ClosersAgree'
    BY <1>1 DEF Input, RecordUse, TypeOK, UsesRecorded, ClosersAgree, ClaimGuards
  <2>4. ClaimGuards'
    BY <1>1 DEF Input, RecordUse, TypeOK, UsesRecorded, ClosersAgree, ClaimGuards
  <2>5. QED
    BY <2>1, <2>2, <2>3, <2>4
<1>2. ASSUME NEW t \in Typist, FocusReport(t) PROVE IInv'
  <2>1. TypeOK'
    BY <1>2 DEF FocusReport, TypeOK, UsesRecorded, ClosersAgree, ClaimGuards
  <2>2. UsesRecorded'
    BY <1>2 DEF FocusReport, TypeOK, UsesRecorded, ClosersAgree, ClaimGuards
  <2>3. ClosersAgree'
    BY <1>2 DEF FocusReport, TypeOK, UsesRecorded, ClosersAgree, ClaimGuards
  <2>4. ClaimGuards'
    BY <1>2 DEF FocusReport, TypeOK, UsesRecorded, ClosersAgree, ClaimGuards
  <2>5. QED
    BY <2>1, <2>2, <2>3, <2>4
<1>3. ASSUME NEW w \in Window, BeginAttach(w) PROVE IInv'
  <2>1. TypeOK'
    BY <1>3 DEF BeginAttach, TypeOK, UsesRecorded, ClosersAgree, ClaimGuards
  <2>2. UsesRecorded'
    BY <1>3 DEF BeginAttach, TypeOK, UsesRecorded, ClosersAgree, ClaimGuards
  <2>3. ClosersAgree'
    BY <1>3 DEF BeginAttach, TypeOK, UsesRecorded, ClosersAgree, ClaimGuards
  <2>4. ClaimGuards'
    BY <1>3 DEF BeginAttach, TypeOK, UsesRecorded, ClosersAgree, ClaimGuards
  <2>5. QED
    BY <2>1, <2>2, <2>3, <2>4
<1>4. ASSUME NEW w \in Window, RegisterAttachment(w) PROVE IInv'
  <2>1. TypeOK'
    BY <1>4 DEF RegisterAttachment, TryAttach, TypeOK, UsesRecorded, ClosersAgree, ClaimGuards
  <2>2. UsesRecorded'
    BY <1>4 DEF RegisterAttachment, TryAttach, TypeOK, UsesRecorded, ClosersAgree, ClaimGuards
  <2>3. ClosersAgree'
    BY <1>4 DEF RegisterAttachment, TryAttach, TypeOK, UsesRecorded, ClosersAgree, ClaimGuards
  <2>4. ClaimGuards'
    BY <1>4 DEF RegisterAttachment, TryAttach, TypeOK, UsesRecorded, ClosersAgree, ClaimGuards
  <2>5. QED
    BY <2>1, <2>2, <2>3, <2>4
<1>5. ASSUME NEW w \in Window, Detach(w) PROVE IInv'
  <2>1. TypeOK'
    BY <1>5 DEF Detach, TypeOK, UsesRecorded, ClosersAgree, ClaimGuards
  <2>2. UsesRecorded'
    BY <1>5 DEF Detach, TypeOK, UsesRecorded, ClosersAgree, ClaimGuards
  <2>3. ClosersAgree'
    BY <1>5 DEF Detach, TypeOK, UsesRecorded, ClosersAgree, ClaimGuards
  <2>4. ClaimGuards'
    BY <1>5 DEF Detach, TypeOK, UsesRecorded, ClosersAgree, ClaimGuards
  <2>5. QED
    BY <2>1, <2>2, <2>3, <2>4
<1>6. CASE Organize
  <2>1. TypeOK'
    BY <1>6 DEF Organize, TypeOK, UsesRecorded, ClosersAgree, ClaimGuards
  <2>2. UsesRecorded'
    BY <1>6 DEF Organize, TypeOK, UsesRecorded, ClosersAgree, ClaimGuards
  <2>3. ClosersAgree'
    BY <1>6 DEF Organize, TypeOK, UsesRecorded, ClosersAgree, ClaimGuards
  <2>4. ClaimGuards'
    BY <1>6 DEF Organize, TypeOK, UsesRecorded, ClosersAgree, ClaimGuards
  <2>5. QED
    BY <2>1, <2>2, <2>3, <2>4
<1>7. CASE BeginCapture
  <2>1. TypeOK'
    BY <1>7 DEF BeginCapture, TypeOK, UsesRecorded, ClosersAgree, ClaimGuards
  <2>2. UsesRecorded'
    BY <1>7 DEF BeginCapture, TypeOK, UsesRecorded, ClosersAgree, ClaimGuards
  <2>3. ClosersAgree'
    BY <1>7 DEF BeginCapture, TypeOK, UsesRecorded, ClosersAgree, ClaimGuards
  <2>4. ClaimGuards'
    BY <1>7 DEF BeginCapture, TypeOK, UsesRecorded, ClosersAgree, ClaimGuards
  <2>5. QED
    BY <2>1, <2>2, <2>3, <2>4
<1>8. CASE EndCapture
  <2>1. TypeOK'
    BY <1>8 DEF EndCapture, RecordUse, TypeOK, UsesRecorded, ClosersAgree, ClaimGuards
  <2>2. UsesRecorded'
    BY <1>8 DEF EndCapture, RecordUse, TypeOK, UsesRecorded, ClosersAgree, ClaimGuards
  <2>3. ClosersAgree'
    BY <1>8 DEF EndCapture, RecordUse, TypeOK, UsesRecorded, ClosersAgree, ClaimGuards
  <2>4. ClaimGuards'
    BY <1>8 DEF EndCapture, RecordUse, TypeOK, UsesRecorded, ClosersAgree, ClaimGuards
  <2>5. QED
    BY <2>1, <2>2, <2>3, <2>4
<1>9. ASSUME NEW c \in Closer, BeginClose(c) PROVE IInv'
  <2>1. TypeOK'
    BY <1>9 DEF BeginClose, TypeOK, UsesRecorded, ClosersAgree, ClaimGuards
  <2>2. UsesRecorded'
    BY <1>9 DEF BeginClose, TypeOK, UsesRecorded, ClosersAgree, ClaimGuards
  <2>3. ClosersAgree'
    BY <1>9 DEF BeginClose, TypeOK, UsesRecorded, ClosersAgree, ClaimGuards
  <2>4. ClaimGuards'
    BY <1>9 DEF BeginClose, TypeOK, UsesRecorded, ClosersAgree, ClaimGuards
  <2>5. QED
    BY <2>1, <2>2, <2>3, <2>4
<1>10. ASSUME NEW c \in Closer, AnswerUsed(c) PROVE IInv'
  <2>1. TypeOK'
    BY <1>10 DEF AnswerUsed, At, TypeOK, UsesRecorded, ClosersAgree, ClaimGuards
  <2>2. UsesRecorded'
    BY <1>10 DEF AnswerUsed, At, TypeOK, UsesRecorded, ClosersAgree, ClaimGuards
  <2>3. ClosersAgree'
    BY <1>10 DEF AnswerUsed, At, TypeOK, UsesRecorded, ClosersAgree, ClaimGuards
  <2>4. ClaimGuards'
    BY <1>10 DEF AnswerUsed, At, TypeOK, UsesRecorded, ClosersAgree, ClaimGuards
  <2>5. QED
    BY <2>1, <2>2, <2>3, <2>4
<1>11. ASSUME NEW c \in Closer, Claim(c) PROVE IInv'
  <2>1. TypeOK'
    BY <1>11 DEF Claim, ClaimUnattached, At, TypeOK, UsesRecorded, ClosersAgree, ClaimGuards
  <2>2. UsesRecorded'
    BY <1>11 DEF Claim, ClaimUnattached, At, TypeOK, UsesRecorded, ClosersAgree, ClaimGuards
  <2>3. ClosersAgree'
    BY <1>11 DEF Claim, ClaimUnattached, At, TypeOK, UsesRecorded, ClosersAgree, ClaimGuards
  <2>4. ClaimGuards'
    BY <1>11 DEF Claim, ClaimUnattached, At, TypeOK, UsesRecorded, ClosersAgree, ClaimGuards
  <2>5. QED
    BY <2>1, <2>2, <2>3, <2>4
<1>12. ASSUME NEW c \in Closer, AbandonClose(c) PROVE IInv'
  <2>1. TypeOK'
    BY <1>12 DEF AbandonClose, ReleaseClaim, At, TypeOK, UsesRecorded, ClosersAgree, ClaimGuards
  <2>2. UsesRecorded'
    BY <1>12 DEF AbandonClose, ReleaseClaim, At, TypeOK, UsesRecorded, ClosersAgree, ClaimGuards
  <2>3. ClosersAgree'
    BY <1>12 DEF AbandonClose, ReleaseClaim, At, TypeOK, UsesRecorded, ClosersAgree, ClaimGuards
  <2>4. ClaimGuards'
    BY <1>12 DEF AbandonClose, ReleaseClaim, At, TypeOK, UsesRecorded, ClosersAgree, ClaimGuards
  <2>5. QED
    BY <2>1, <2>2, <2>3, <2>4
<1>13. ASSUME NEW c \in Closer, InstallClose(c) PROVE IInv'
  <2>1. TypeOK'
    BY <1>13 DEF InstallClose, At, TypeOK, UsesRecorded, ClosersAgree, ClaimGuards
  <2>2. UsesRecorded'
    BY <1>13 DEF InstallClose, At, TypeOK, UsesRecorded, ClosersAgree, ClaimGuards
  <2>3. ClosersAgree'
    BY <1>13 DEF InstallClose, At, TypeOK, UsesRecorded, ClosersAgree, ClaimGuards
  <2>4. ClaimGuards'
    BY <1>13 DEF InstallClose, At, TypeOK, UsesRecorded, ClosersAgree, ClaimGuards
  <2>5. QED
    BY <2>1, <2>2, <2>3, <2>4
<1>14. CASE UNCHANGED vars
  BY <1>14 DEF vars, TypeOK, UsesRecorded, ClosersAgree, ClaimGuards
<1>15. QED
  BY <1>1, <1>2, <1>3, <1>4, <1>5, <1>6, <1>7, <1>8, <1>9, <1>10, <1>11, <1>12, <1>13, <1>14 DEF Next, Close

(* The invariant holds always. *)
THEOREM LatchSound == Spec => []IInv
BY InitHolds, NextKeeps, PTL DEF Spec

(* Every variable keeps its shape; in particular the topology transaction  *)
(* has one holder.                                                         *)
THEOREM UnusedTypeCorrect == Spec => []TypeOK
<1>1. IInv => TypeOK
  BY DEF IInv
<1>2. QED
  BY <1>1, LatchSound, PTL

(* For any number of connections: a Dojo whose close has claimed it, or    *)
(* that is closed, was never used: the compare-and-swap of the latch and   *)
(* the lock of the attachment registry order every use before the claim    *)
(* or refuse it.                                                           *)
THEOREM NeverClosedInUse == Spec => []ClosedOnlyUnused
<1>1. IInv => ClosedOnlyUnused
  BY DEF IInv, TypeOK, UsesRecorded, ClaimGuards, ClosedOnlyUnused
<1>2. QED
  BY <1>1, LatchSound, PTL

(* For any number of connections: the Splint refuses input exactly while a *)
(* close that holds the transaction has claimed it, and once it is closed. *)
THEOREM ClaimAlwaysHeld == Spec => []ClaimHasHolder
<1>1. IInv => ClaimHasHolder
  BY DEF IInv, TypeOK, ClosersAgree, ClaimGuards, ClaimHasHolder
<1>2. QED
  BY <1>1, LatchSound, PTL
=============================================================================
