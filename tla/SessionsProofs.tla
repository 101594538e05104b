--------------------------- MODULE SessionsProofs ---------------------------
(***************************************************************************)
(* Proofs about Sessions, for any calls and any e-mails.  A token is       *)
(* stored once, by its own call (Born); what a call has read of a stored   *)
(* token's family and owner stays true, because a family is fixed when its *)
(* token is stored (Aims).  What outlives a revoke_family is followed from *)
(* its SELECT on: every living token of the family is one it will lock,    *)
(* one it has locked, or has an overlapping rotation in its line (Raced).  *)
(***************************************************************************)
EXTENDS Sessions, TLAPS

Places == {"idle"} \cup Open \cup Over
States == {"none", "live", "revoked"}

USE DEF Rotating, Revoking, Open, Over, Places, States

\* A call has stored its token only if it has ended well; until then the row
\* does not exist and its family is its own.
Born(c) == /\ tok[c] # "none" => pc[c] = "ok"
           /\ tok[c] = "none" => fam[c] = c

\* What a call is after: a token that is stored, which it may rotate or whose
\* family it may revoke, and then only the caller's own.
Aims(c) == /\ pc[c] \in Rotating \cup Revoking => tok[shown[c]] # "none"
           /\ pc[c] \in Rotating => Kind[c] = "refresh"
           /\ pc[c] \in Revoking => Kind[c] = "refresh" \/ Owner(shown[c]) = EmailOf[c]
           /\ pc[c] \in Revoking => Kind[c] \in {"refresh", "logout"}

\* The rows an UPDATE is to visit or has locked are stored rows of the family
\* it is ending.
Locks(c) == /\ pc[c] = "revoking" => \A t \in Calls : t \in target[c] \/ lock[t] = c =>
                                        tok[t] # "none" /\ fam[t] = fam[shown[c]]
            /\ \A t \in Calls : lock[t] = c => pc[c] \in {"rotated", "revoking"}

\* The successor of a token is stored with it revoked.
Parent(t) == (tok[t] # "none" /\ fam[t] # t) => tok[shown[t]] = "revoked"

IInv == /\ TypeOK
        /\ \A c \in Calls : Born(c) /\ Aims(c) /\ Locks(c) /\ Parent(c)

LEMMA InitHolds == Init => IInv
<1> SUFFICES ASSUME Init PROVE IInv
  OBVIOUS
<1>1. TypeOK
  BY DEF Init, TypeOK
<1>2. ASSUME NEW c \in Calls PROVE Born(c) /\ Aims(c) /\ Locks(c) /\ Parent(c)
  BY <1>2, SessionsAssumption DEF Init, Born, Aims, Locks, Parent
<1> QED BY <1>1, <1>2 DEF IInv

-----------------------------------------------------------------------------
(* A step of call c, by what it writes.                                    *)

\* Nothing of the others changes, except what is said of c's own token.
Alone(c) == /\ \A q \in Calls : q # c => /\ pc'[q] = pc[q] /\ shown'[q] = shown[q]
                                         /\ target'[q] = target[q]

\* What IInv says of q survives a step of another call, which keeps every
\* stored token stored, in its family, and revoked once it is.
LEMMA OthersKeep ==
    ASSUME IInv, NEW c \in Calls, Alone(c),
           \A t \in Calls : tok[t] # "none" =>
               /\ tok'[t] # "none" /\ fam'[t] = fam[t]
               /\ tok[t] = "revoked" => tok'[t] = "revoked",
           \A t \in Calls : t # c /\ tok[t] = "none" => tok'[t] = "none" /\ fam'[t] = fam[t],
           \A t \in Calls : lock'[t] \in {lock[t], c, NoCall},
           NEW q \in Calls, q # c
    PROVE  Born(q)' /\ Aims(q)' /\ Locks(q)' /\ Parent(q)'
<1>1. /\ pc'[q] = pc[q] /\ shown'[q] = shown[q] /\ target'[q] = target[q]
      /\ shown[q] \in Calls /\ target[q] \subseteq Calls
      /\ Born(q) /\ Aims(q) /\ Locks(q) /\ Parent(q)
  BY DEF IInv, TypeOK, Alone
<1>2. Born(q)'
  BY <1>1 DEF Born
<1>3. Aims(q)'
  BY <1>1 DEF Aims, Owner
<1>4. Locks(q)'
  <2>1. \A t \in Calls : lock'[t] = q => lock[t] = q
    BY SessionsAssumption
  <2>2. pc[q] = "revoking" => \A t \in Calls : t \in target[q] \/ lock[t] = q =>
                                 tok'[t] # "none" /\ fam'[t] = fam'[shown[q]]
    BY <1>1 DEF Locks, Aims
  <2> QED BY <1>1, <2>1, <2>2 DEF Locks
<1>5. Parent(q)'
  BY <1>1 DEF Parent
<1> QED BY <1>2, <1>3, <1>4, <1>5

\* Most steps move c alone and write no row.
LEMMA MoveKeeps ==
    ASSUME IInv, NEW c \in Calls, NEW l \in Places, Goto(c, l),
           UNCHANGED <<tok, fam, target, rivals>>,
           accounts' \subseteq Calls, claim' \subseteq Calls,
           NEW s \in Calls, shown' = [shown EXCEPT ![c] = s], s = shown[c] \/ tok[c] = "none",
           lock' = lock,
           tok[c] # "none" => l = "ok",
           l \in Rotating \cup Revoking =>
               /\ tok[s] # "none"
               /\ l \in Rotating => Kind[c] = "refresh"
               /\ l \in Revoking => Kind[c] = "refresh" \/ Owner(s) = EmailOf[c]
               /\ l \in Revoking => Kind[c] \in {"refresh", "logout"},
           l \notin {"rotated", "revoking"},
           pc[c] \notin {"rotated", "revoking"}
    PROVE  IInv'
<1>1. /\ pc' \in [Calls -> Places] /\ pc'[c] = l /\ \A q \in Calls : q # c => pc'[q] = pc[q]
      /\ shown' \in [Calls -> Calls] /\ shown'[c] = s
      /\ \A q \in Calls : q # c => shown'[q] = shown[q]
      /\ target' = target /\ tok' = tok /\ fam' = fam
  BY DEF IInv, TypeOK, Goto
<1>2. TypeOK'
  BY <1>1 DEF IInv, TypeOK
<1>3. Alone(c)
  BY <1>1 DEF Alone
<1>4. ASSUME NEW q \in Calls, q # c PROVE Born(q)' /\ Aims(q)' /\ Locks(q)' /\ Parent(q)'
  BY <1>1, <1>3, <1>4, OthersKeep
<1>5. Born(c)' /\ Aims(c)' /\ Parent(c)'
  BY <1>1 DEF IInv, Born, Aims, Parent, Owner
<1>6. Locks(c)'
  BY <1>1 DEF IInv, Locks
<1> QED BY <1>2, <1>4, <1>5, <1>6 DEF IInv

\* A step that ends the transaction of c or goes on with it, in full.
LEMMA StepKeeps ==
    ASSUME IInv, NEW c \in Calls, Handle(c) \/ Abort(c)
    PROVE  IInv'
<1> USE SessionsAssumption
<1>1. /\ TypeOK /\ Born(c) /\ Aims(c) /\ Locks(c) /\ Parent(c)
      /\ pc \in [Calls -> Places] /\ shown \in [Calls -> Calls] /\ shown[c] \in Calls
      /\ shown = [shown EXCEPT ![c] = shown[c]]
  BY DEF IInv, TypeOK
<1>2. ASSUME NEW l \in Places, Goto(c, l)
      PROVE  /\ pc' \in [Calls -> Places] /\ pc'[c] = l
             /\ \A q \in Calls : q # c => pc'[q] = pc[q]
  BY <1>1, <1>2 DEF Goto
<1>3. ASSUME shown' = shown, \A q \in Calls : q # c => pc'[q] = pc[q] /\ target'[q] = target[q]
      PROVE  Alone(c)
  BY <1>3 DEF Alone
<1>4. ASSUME lock' = Unlocked(c)
      PROVE  /\ lock' \in [Calls -> Calls \cup {NoCall}]
             /\ \A t \in Calls : lock'[t] \in {lock[t], NoCall} /\ lock'[t] # c
  BY <1>1, <1>4 DEF Unlocked, TypeOK
<1>5. CASE RegisterReads(c)
  <2>1. /\ pc[c] = "idle" /\ \E l \in {"refused", "insert"} : Goto(c, l)
        /\ UNCHANGED <<accounts, claim, tok, fam, lock, shown, target, rivals>>
    BY <1>5 DEF RegisterReads, Arrives
  <2> QED BY <1>1, <2>1, MoveKeeps DEF Born, TypeOK
<1>6. CASE RegisterInserts(c)
  <2>1. /\ pc[c] = "insert" /\ \E l \in {"unmapped", "opening"} : Goto(c, l)
        /\ claim' \subseteq claim \cup {c}
        /\ UNCHANGED <<accounts, tok, fam, lock, shown, target, rivals>>
    BY <1>6 DEF RegisterInserts
  <2> QED BY <1>1, <2>1, MoveKeeps DEF Born, TypeOK
<1>7. CASE LoginReads(c)
  <2>1. /\ pc[c] = "idle" /\ \E l \in {"refused", "opening"} : Goto(c, l)
        /\ UNCHANGED <<accounts, claim, tok, fam, lock, shown, target, rivals>>
    BY <1>7 DEF LoginReads, Arrives
  <2> QED BY <1>1, <2>1, MoveKeeps DEF Born, TypeOK
<1>8. CASE RefreshReads(c)
  <2>1. /\ pc[c] = "idle" /\ Kind[c] = "refresh" /\ tok[c] = "none"
        /\ UNCHANGED <<accounts, claim, tok, fam, lock, target, rivals>>
    BY <1>1, <1>8 DEF RefreshReads, Arrives, Born
  <2>2. CASE Goto(c, "refused") /\ UNCHANGED shown
    BY <1>1, <2>1, <2>2, MoveKeeps DEF TypeOK
  <2>3. ASSUME NEW t \in Stored, shown' = [shown EXCEPT ![c] = t],
               NEW l \in {"doomed", "rotate"}, Goto(c, l)
        PROVE  IInv'
    <3>1. t \in Calls /\ tok[t] # "none"
      BY <2>3 DEF Stored
    <3> QED BY <1>1, <2>1, <2>3, <3>1, MoveKeeps DEF TypeOK
  <2> QED BY <1>8, <2>2, <2>3 DEF RefreshReads
<1>9. CASE LogoutReads(c)
  <2>1. /\ pc[c] = "idle" /\ Kind[c] = "logout" /\ tok[c] = "none"
        /\ UNCHANGED <<accounts, claim, tok, fam, lock, target, rivals>>
    BY <1>1, <1>9 DEF LogoutReads, Arrives, Born
  <2>2. CASE Goto(c, "ok") /\ UNCHANGED shown
    BY <1>1, <2>1, <2>2, MoveKeeps DEF TypeOK
  <2>3. ASSUME NEW t \in Stored, shown' = [shown EXCEPT ![c] = t], Owner(t) = EmailOf[c],
               Goto(c, "doomed")
        PROVE  IInv'
    <3>1. t \in Calls /\ tok[t] # "none"
      BY <2>3 DEF Stored
    <3>2. PICK l \in {"doomed"} : Goto(c, l)
      BY <2>3
    <3> QED BY <1>1, <2>1, <2>3, <3>1, <3>2, MoveKeeps DEF TypeOK
  <2> QED BY <1>9, <2>2, <2>3 DEF LogoutReads
<1>10. CASE OpenSession(c)
  <2>1. /\ pc[c] = "opening" /\ tok[c] = "none" /\ fam[c] = c /\ Goto(c, "ok")
        /\ tok' = [tok EXCEPT ![c] = "live"] /\ fam' = [fam EXCEPT ![c] = c]
        /\ accounts' \subseteq accounts \cup claim /\ claim' \subseteq claim
        /\ lock' = lock /\ shown' = shown /\ target' = target /\ rivals' = rivals
    BY <1>1, <1>10 DEF OpenSession, Born
  <2>2. /\ tok' \in [Calls -> States] /\ tok'[c] = "live"
        /\ fam' \in [Calls -> Calls] /\ fam'[c] = c
        /\ \A t \in Calls : t # c => tok'[t] = tok[t] /\ fam'[t] = fam[t]
    BY <1>1, <2>1 DEF TypeOK
  <2>3. pc' \in [Calls -> Places] /\ pc'[c] = "ok" /\ \A q \in Calls : q # c => pc'[q] = pc[q]
    BY <1>2, <2>1
  <2>4. TypeOK'
    BY <1>1, <2>1, <2>2, <2>3 DEF TypeOK
  <2>5. ASSUME NEW q \in Calls, q # c PROVE Born(q)' /\ Aims(q)' /\ Locks(q)' /\ Parent(q)'
    BY <1>3, <2>1, <2>2, <2>3, <2>5, OthersKeep
  <2>6. Born(c)' /\ Aims(c)' /\ Locks(c)' /\ Parent(c)'
    BY <1>1, <2>1, <2>2, <2>3 DEF Born, Aims, Locks, Parent
  <2> QED BY <2>4, <2>5, <2>6 DEF IInv
<1>11. CASE Rotate(c)
  <2>1. /\ pc[c] = "rotate" /\ lock[shown[c]] = NoCall /\ Goto(c, "rotated")
        /\ lock' = [lock EXCEPT ![shown[c]] = c]
        /\ UNCHANGED <<accounts, claim, tok, fam, shown, target, rivals>>
    BY <1>11 DEF Rotate
  <2>2. pc' \in [Calls -> Places] /\ pc'[c] = "rotated" /\ \A q \in Calls : q # c => pc'[q] = pc[q]
    BY <1>2, <2>1
  <2>3. /\ lock' \in [Calls -> Calls \cup {NoCall}]
        /\ \A t \in Calls : lock'[t] \in {lock[t], c}
    BY <1>1, <2>1 DEF TypeOK
  <2>4. TypeOK'
    BY <1>1, <2>1, <2>2, <2>3 DEF TypeOK
  <2>5. ASSUME NEW q \in Calls, q # c PROVE Born(q)' /\ Aims(q)' /\ Locks(q)' /\ Parent(q)'
    BY <1>3, <2>1, <2>2, <2>3, <2>5, OthersKeep
  <2>6. Born(c)' /\ Aims(c)' /\ Locks(c)' /\ Parent(c)'
    BY <1>1, <2>1, <2>2, <2>3 DEF Born, Aims, Locks, Parent
  <2> QED BY <2>4, <2>5, <2>6 DEF IInv
<1>12. CASE CommitRotation(c)
  <2>1. /\ pc[c] = "rotated" /\ tok[c] = "none" /\ tok[shown[c]] # "none" /\ shown[c] # c
        /\ Goto(c, "ok") /\ lock' = Unlocked(c) /\ rivals' = Rivals(c)
        /\ tok' = [tok EXCEPT ![shown[c]] = "revoked", ![c] = "live"]
        /\ fam' = [fam EXCEPT ![c] = fam[shown[c]]]
        /\ UNCHANGED <<accounts, claim, shown, target>>
    BY <1>1, <1>12 DEF CommitRotation, Born, Aims
  <2>2. /\ tok' \in [Calls -> States] /\ tok'[c] = "live" /\ tok'[shown[c]] = "revoked"
        /\ fam' \in [Calls -> Calls]
        /\ \A t \in Calls : t # c => fam'[t] = fam[t]
        /\ \A t \in Calls : t # c /\ t # shown[c] => tok'[t] = tok[t]
    BY <1>1, <2>1 DEF TypeOK
  <2>3. pc' \in [Calls -> Places] /\ pc'[c] = "ok" /\ \A q \in Calls : q # c => pc'[q] = pc[q]
    BY <1>2, <2>1
  <2>4. rivals' \in [Calls -> SUBSET Calls]
    BY <1>1, <2>1 DEF Rivals, TypeOK
  <2>5. TypeOK'
    BY <1>1, <1>4, <2>1, <2>2, <2>3, <2>4 DEF TypeOK
  <2>6. ASSUME NEW q \in Calls, q # c PROVE Born(q)' /\ Aims(q)' /\ Locks(q)' /\ Parent(q)'
    BY <1>3, <1>4, <2>1, <2>2, <2>3, <2>6, OthersKeep
  <2>7. Born(c)' /\ Aims(c)' /\ Locks(c)' /\ Parent(c)'
    BY <1>1, <1>4, <2>1, <2>2, <2>3 DEF Born, Aims, Locks, Parent
  <2> QED BY <2>5, <2>6, <2>7 DEF IInv
<1>13. CASE RevokeSelects(c)
  <2>1. /\ pc[c] = "doomed" /\ Goto(c, "revoking")
        /\ target' = [target EXCEPT ![c] = Family(shown[c])]
        /\ UNCHANGED <<accounts, claim, tok, fam, lock, shown, rivals>>
    BY <1>13 DEF RevokeSelects
  <2>2. /\ target' \in [Calls -> SUBSET Calls] /\ target'[c] = Family(shown[c])
        /\ \A q \in Calls : q # c => target'[q] = target[q]
    BY <1>1, <2>1 DEF Family, TypeOK
  <2>3. pc' \in [Calls -> Places] /\ pc'[c] = "revoking" /\ \A q \in Calls : q # c => pc'[q] = pc[q]
    BY <1>2, <2>1
  <2>4. TypeOK'
    BY <1>1, <2>1, <2>2, <2>3 DEF TypeOK
  <2>5. ASSUME NEW q \in Calls, q # c PROVE Born(q)' /\ Aims(q)' /\ Locks(q)' /\ Parent(q)'
    BY <1>3, <2>1, <2>2, <2>3, <2>5, OthersKeep
  <2>6. Born(c)' /\ Aims(c)' /\ Parent(c)'
    BY <1>1, <2>1, <2>3 DEF Born, Aims, Parent, Owner
  <2>7. Locks(c)'
    BY <1>1, <2>1, <2>2, <2>3 DEF Locks, Family
  <2> QED BY <2>4, <2>5, <2>6, <2>7 DEF IInv
<1>14. CASE RevokeRow(c)
  <2>1. PICK t \in target[c] :
           /\ lock[t] = NoCall
           /\ lock' = IF tok[t] = "live" THEN [lock EXCEPT ![t] = c] ELSE lock
           /\ target' = [target EXCEPT ![c] = @ \ {t}]
    BY <1>14 DEF RevokeRow
  <2>2. pc[c] = "revoking" /\ UNCHANGED <<accounts, claim, tok, fam, pc, shown, rivals>>
    BY <1>14 DEF RevokeRow
  <2>3. /\ lock' \in [Calls -> Calls \cup {NoCall}]
        /\ \A q \in Calls : lock'[q] \in {lock[q], c}
        /\ \A q \in Calls : lock'[q] = c => q = t \/ lock[q] = c
    BY <1>1, <2>1 DEF TypeOK
  <2>4. /\ target' \in [Calls -> SUBSET Calls] /\ target'[c] \subseteq target[c]
        /\ \A q \in Calls : q # c => target'[q] = target[q]
    BY <1>1, <2>1 DEF TypeOK
  <2>5. TypeOK'
    BY <1>1, <2>2, <2>3, <2>4 DEF TypeOK
  <2>6. ASSUME NEW q \in Calls, q # c PROVE Born(q)' /\ Aims(q)' /\ Locks(q)' /\ Parent(q)'
    BY <1>3, <2>2, <2>3, <2>4, <2>6, OthersKeep
  <2>7. Born(c)' /\ Aims(c)' /\ Parent(c)'
    BY <1>1, <2>2 DEF Born, Aims, Parent, Owner
  <2>8. Locks(c)'
    BY <1>1, <2>1, <2>2, <2>3, <2>4 DEF Locks
  <2> QED BY <2>5, <2>6, <2>7, <2>8 DEF IInv
<1>15. CASE CommitRevoke(c)
  <2>1. /\ pc[c] = "revoking" /\ target[c] = {} /\ lock' = Unlocked(c)
        /\ tok' = [t \in Calls |-> IF lock[t] = c THEN "revoked" ELSE tok[t]]
        /\ rivals' = [rivals EXCEPT ![c] = @ \cup {k \in Calls : pc[k] \in Rotating}]
        /\ UNCHANGED <<accounts, claim, fam, shown, target>>
    BY <1>15 DEF CommitRevoke
  <2>2. PICK l \in {"reused", "ended"} : Goto(c, l)
    BY <1>15 DEF CommitRevoke
  <2>3. /\ tok' \in [Calls -> States]
        /\ \A t \in Calls : tok'[t] \in {tok[t], "revoked"} /\ (tok'[t] = "none" <=> tok[t] = "none")
    BY <1>1, <2>1 DEF TypeOK, Locks
  <2>4. pc' \in [Calls -> Places] /\ pc'[c] = l /\ \A q \in Calls : q # c => pc'[q] = pc[q]
    BY <1>2, <2>2
  <2>5. rivals' \in [Calls -> SUBSET Calls]
    BY <1>1, <2>1 DEF TypeOK
  <2>6. TypeOK'
    BY <1>1, <1>4, <2>1, <2>3, <2>4, <2>5 DEF TypeOK
  <2>7. ASSUME NEW q \in Calls, q # c PROVE Born(q)' /\ Aims(q)' /\ Locks(q)' /\ Parent(q)'
    BY <1>3, <1>4, <2>1, <2>3, <2>4, <2>7, OthersKeep
  <2>8. tok[c] = "none" /\ tok'[c] = "none"
    BY <1>1, <2>1, <2>3 DEF Born
  <2>9. Born(c)' /\ Aims(c)' /\ Locks(c)' /\ Parent(c)'
    BY <1>1, <1>4, <2>1, <2>4, <2>8 DEF Born, Aims, Locks, Parent
  <2> QED BY <2>6, <2>7, <2>9 DEF IInv
<1>16. CASE Abort(c)
  <2>1. /\ pc[c] \in Open /\ Goto(c, "aborted") /\ lock' = Unlocked(c) /\ claim' \subseteq claim
        /\ UNCHANGED <<accounts, tok, fam, shown, target, rivals>>
    BY <1>16 DEF Abort
  <2>2. pc' \in [Calls -> Places] /\ pc'[c] = "aborted" /\ \A q \in Calls : q # c => pc'[q] = pc[q]
    BY <1>2, <2>1
  <2>3. TypeOK'
    BY <1>1, <1>4, <2>1, <2>2 DEF TypeOK
  <2>4. ASSUME NEW q \in Calls, q # c PROVE Born(q)' /\ Aims(q)' /\ Locks(q)' /\ Parent(q)'
    BY <1>3, <1>4, <2>1, <2>2, <2>4, OthersKeep
  <2>5. Born(c)' /\ Aims(c)' /\ Locks(c)' /\ Parent(c)'
    BY <1>1, <1>4, <2>1, <2>2 DEF Born, Aims, Locks, Parent
  <2> QED BY <2>3, <2>4, <2>5 DEF IInv
<1> QED
  BY <1>5, <1>6, <1>7, <1>8, <1>9, <1>10, <1>11, <1>12, <1>13, <1>14, <1>15, <1>16 DEF Handle

LEMMA AlwaysIInv == Spec => []IInv
<1>1. IInv /\ [Next]_vars => IInv'
  <2> SUFFICES ASSUME IInv, [Next]_vars PROVE IInv'
    OBVIOUS
  <2>1. CASE Next
    BY <2>1, StepKeeps DEF Next
  <2>2. CASE UNCHANGED vars
    BY <2>2 DEF vars, IInv, TypeOK, Born, Aims, Locks, Parent, Owner
  <2> QED BY <2>1, <2>2
<1> QED BY InitHolds, <1>1, PTL DEF Spec

-----------------------------------------------------------------------------
(* The line of a token.  Line is a recursive function: that one exists is  *)
(* shown by giving it (Above), that a step leaves it as it was, by a       *)
(* token of which that is false and of whose parent it is true (Founded).  *)

Closed(S) == \A q \in S : fam[q] # q => shown[q] \in S
Above(t)  == {p \in Calls : \A S \in SUBSET Calls : t \in S /\ Closed(S) => p \in S}

IsUp(g) == g = [q \in Calls |-> IF fam[q] = q THEN {q} ELSE {q} \cup g[shown[q]]]

LEMMA UpExists == ASSUME TypeOK PROVE IsUp([q \in Calls |-> Above(q)])
<1>0. shown \in [Calls -> Calls]
  BY DEF TypeOK
<1>1. ASSUME NEW q \in Calls PROVE Above(q) = IF fam[q] = q THEN {q} ELSE {q} \cup Above(shown[q])
  <2>1. CASE fam[q] = q
    <3>1. {q} \in SUBSET Calls /\ Closed({q})
      BY <2>1 DEF Closed
    <3> QED BY <2>1, <3>1 DEF Above
  <2>2. CASE fam[q] # q
    <3> DEFINE S0 == {q} \cup Above(shown[q])
    <3>1. S0 \in SUBSET Calls
      BY DEF Above
    <3>2. Closed(S0)
      <4>1. ASSUME NEW p \in Above(shown[q]), fam[p] # p PROVE shown[p] \in Above(shown[q])
        BY <1>0, <4>1 DEF Above, Closed
      <4>2. shown[q] \in Above(shown[q])
        BY <1>0 DEF Above
      <4> QED BY <4>1, <4>2 DEF Closed
    <3>3. Above(q) \subseteq S0
      BY <3>1, <3>2 DEF Above
    <3>4. q \in Above(q)
      BY DEF Above
    <3>5. Above(shown[q]) \subseteq Above(q)
      BY <2>2 DEF Above, Closed
    <3> QED BY <2>2, <3>3, <3>4, <3>5
  <2> QED BY <2>1, <2>2
<1> HIDE DEF Above
<1> QED BY <1>0, <1>1 DEF IsUp

Equation == \A t, s \in Calls : s = shown[t] =>
                Line(t) = IF fam[t] = t THEN {t} ELSE {t} \cup Line(s)

LEMMA LineEquation == TypeOK => Equation
<1> SUFFICES ASSUME TypeOK, NEW t \in Calls
             PROVE  Line(t) = IF fam[t] = t THEN {t} ELSE {t} \cup Line(shown[t])
  BY DEF Equation
<1> DEFINE g == CHOOSE f : IsUp(f)
<1>1. IsUp(g)
  BY UpExists
<1>2. \A q : Line(q) = g[q]
  BY DEF Line, IsUp
<1>3. shown[t] \in Calls
  BY DEF TypeOK
<1> HIDE DEF g
<1> QED BY <1>1, <1>2, <1>3 DEF IsUp

LEMMA LineEquationNext == TypeOK' => Equation'
BY LineEquation, PTL

\* No token is its own ancestor, and no line goes on for ever.
Founded == \A T \in SUBSET Calls : T # {} => \E x \in T : fam[x] # x => shown[x] \notin T

\* A line is made of what is stored, and that does not change.
LEMMA LineStays ==
    ASSUME IInv, TypeOK', Founded, NEW t \in Calls, tok[t] # "none",
           \A q \in Calls : tok[q] # "none" => fam'[q] = fam[q] /\ shown'[q] = shown[q]
    PROVE  Line(t)' = Line(t)
<1> DEFINE T == {q \in Calls : tok[q] # "none" /\ Line(q)' # Line(q)}
<1>1. Equation /\ Equation'
  BY LineEquation, LineEquationNext DEF IInv
<1>2. SUFFICES ASSUME T # {} PROVE FALSE
  OBVIOUS
<1>3. PICK x \in T : fam[x] # x => shown[x] \notin T
  BY <1>2 DEF Founded
<1>4. x \in Calls /\ tok[x] # "none" /\ fam'[x] = fam[x] /\ shown'[x] = shown[x] /\ shown[x] \in Calls
  BY DEF IInv, TypeOK
<1>5. PICK s \in Calls : s = shown[x]
  BY <1>4
<1>6. /\ Line(x) = IF fam[x] = x THEN {x} ELSE {x} \cup Line(s)
      /\ Line(x)' = IF fam[x] = x THEN {x} ELSE {x} \cup Line(s)'
  BY <1>1, <1>4, <1>5 DEF Equation
<1>7. fam[x] # x => Line(s)' = Line(s)
  BY <1>3, <1>4, <1>5 DEF IInv, Parent
<1> QED BY <1>3, <1>6, <1>7

-----------------------------------------------------------------------------
(* Who may outlive a revoke_family.                                        *)

Escaped(c, t) == Line(t) \cap rivals[c] # {}

Mates(c) == {t \in Calls : tok[t] = "live" /\ fam[t] = fam[shown[c]]}

\* A family is that of a stored token, and a call that has ended one knows it.
Root(t)  == tok[t] # "none" => tok[fam[t]] # "none"
After(c) == pc[c] \in {"reused", "ended"} => tok[shown[c]] # "none"

\* What is alive in the family c is ending: rows it will lock, rows it has
\* locked, or the offspring of a rotation that overlapped; and after it has
\* committed, a rotation that is still to commit is one of those, too.
Raced(c) ==
    /\ pc[c] = "revoking" => \A t \in Mates(c) : t \in target[c] \/ lock[t] = c \/ Escaped(c, t)
    /\ pc[c] \in {"reused", "ended"} =>
          /\ \A t \in Mates(c) : Escaped(c, t)
          /\ \A q, t \in Calls :
                (pc[q] \in Rotating /\ shown[q] = t /\ fam[t] = fam[shown[c]]) =>
                    q \in rivals[c] \/ Escaped(c, t)

Histories == Founded /\ \A c \in Calls : Root(c) /\ After(c) /\ Raced(c)

\* What a step of c leaves of the rest: stored rows stay what they are but for
\* a death, locks stay with their owners, and c stores at most its own token.
Footprint(c) ==
    /\ \A t \in Calls : tok[t] # "none" =>
          /\ tok'[t] # "none" /\ fam'[t] = fam[t] /\ shown'[t] = shown[t]
          /\ tok'[t] = "live" => tok[t] = "live"
    /\ \A t \in Calls : t # c /\ tok[t] = "none" => tok'[t] = "none"
    /\ \A q \in Calls : q # c => pc'[q] = pc[q] /\ shown'[q] = shown[q] /\ target'[q] = target[q]
    /\ \A k \in Calls : rivals[k] \subseteq rivals'[k]
    /\ \A t \in Calls : lock[t] \in Calls /\ lock[t] # c => lock'[t] = lock[t]
    /\ tok[c] = "none" /\ tok'[c] # "none" =>
          \/ fam'[c] = c
          \/ /\ pc[c] = "rotated" /\ shown'[c] = shown[c] /\ fam'[c] = fam[shown[c]]
             /\ \A k \in Calls : pc[k] = "revoking" => c \in rivals'[k]
    /\ pc'[c] \in Rotating =>
          \/ pc[c] \in Rotating /\ shown'[c] = shown[c]
          \/ tok[shown'[c]] = "live"

LEMMA StepFootprint ==
    ASSUME IInv, NEW c \in Calls, Handle(c) \/ Abort(c)
    PROVE  Footprint(c)
<1>1. /\ TypeOK /\ Born(c) /\ Aims(c) /\ Locks(c) /\ NoCall \notin Calls
      /\ pc \in [Calls -> Places] /\ shown \in [Calls -> Calls] /\ tok \in [Calls -> States]
      /\ fam \in [Calls -> Calls] /\ lock \in [Calls -> Calls \cup {NoCall}]
      /\ target \in [Calls -> SUBSET Calls] /\ rivals \in [Calls -> SUBSET Calls]
  BY SessionsAssumption DEF IInv, TypeOK
<1>2. ASSUME NEW l \in Places, Goto(c, l)
      PROVE  pc'[c] = l /\ \A q \in Calls : q # c => pc'[q] = pc[q]
  BY <1>1, <1>2 DEF Goto
<1>3. ASSUME lock' = Unlocked(c)
      PROVE  \A t \in Calls : lock[t] \in Calls /\ lock[t] # c => lock'[t] = lock[t]
  BY <1>1, <1>3 DEF Unlocked
<1>4. ASSUME UNCHANGED <<tok, fam, target, rivals>>,
             \A q \in Calls : q # c => pc'[q] = pc[q],
             \A t \in Calls : lock[t] \in Calls /\ lock[t] # c => lock'[t] = lock[t],
             \/ shown' = shown /\ (pc'[c] \in Rotating => pc[c] \in Rotating)
             \/ /\ pc[c] = "idle" /\ \E t \in Calls : shown' = [shown EXCEPT ![c] = t]
                /\ pc'[c] \in Rotating => tok[shown'[c]] = "live"
      PROVE  Footprint(c)
  BY <1>1, <1>4 DEF Footprint, Born
<1>5. CASE RegisterReads(c) \/ RegisterInserts(c) \/ LoginReads(c)
  <2>1. /\ \E l \in {"refused", "insert", "unmapped", "opening"} : Goto(c, l)
        /\ UNCHANGED <<tok, fam, lock, shown, target, rivals>>
    BY <1>5 DEF RegisterReads, RegisterInserts, LoginReads
  <2> QED BY <1>2, <1>4, <2>1
<1>6. CASE RefreshReads(c)
  <2>1. pc[c] = "idle" /\ UNCHANGED <<tok, fam, lock, target, rivals>>
    BY <1>6 DEF RefreshReads, Arrives
  <2>2. CASE Goto(c, "refused") /\ UNCHANGED shown
    BY <1>2, <1>4, <2>1, <2>2
  <2>3. ASSUME NEW t \in Stored, shown' = [shown EXCEPT ![c] = t],
               NEW l \in {"doomed", "rotate"}, Goto(c, l), l = "rotate" => tok[t] = "live"
        PROVE  Footprint(c)
    <3>1. t \in Calls /\ shown'[c] = t /\ pc'[c] = l
      BY <1>1, <1>2, <2>3 DEF Stored
    <3> QED BY <1>2, <1>4, <2>1, <2>3, <3>1
  <2> QED BY <1>6, <2>2, <2>3 DEF RefreshReads
<1>7. CASE LogoutReads(c)
  <2>1. pc[c] = "idle" /\ UNCHANGED <<tok, fam, lock, target, rivals>>
    BY <1>7 DEF LogoutReads, Arrives
  <2>2. CASE Goto(c, "ok") /\ UNCHANGED shown
    BY <1>2, <1>4, <2>1, <2>2
  <2>3. ASSUME NEW t \in Stored, shown' = [shown EXCEPT ![c] = t], Goto(c, "doomed")
        PROVE  Footprint(c)
    <3>1. t \in Calls /\ pc'[c] = "doomed" /\ \A q \in Calls : q # c => pc'[q] = pc[q]
      BY <1>2, <2>3 DEF Stored
    <3> QED BY <1>4, <2>1, <2>3, <3>1
  <2> QED BY <1>7, <2>2, <2>3 DEF LogoutReads
<1>8. CASE OpenSession(c)
  <2>1. /\ pc[c] = "opening" /\ tok[c] = "none" /\ Goto(c, "ok")
        /\ tok' = [tok EXCEPT ![c] = "live"] /\ fam' = [fam EXCEPT ![c] = c]
        /\ UNCHANGED <<lock, shown, target, rivals>>
    BY <1>1, <1>8 DEF OpenSession, Born
  <2>2. pc'[c] = "ok" /\ \A q \in Calls : q # c => pc'[q] = pc[q]
    BY <1>2, <2>1
  <2> QED BY <1>1, <2>1, <2>2 DEF Footprint
<1>9. CASE Rotate(c)
  <2>1. /\ pc[c] = "rotate" /\ lock[shown[c]] = NoCall /\ Goto(c, "rotated")
        /\ lock' = [lock EXCEPT ![shown[c]] = c]
        /\ UNCHANGED <<tok, fam, shown, target, rivals>>
    BY <1>9 DEF Rotate
  <2>2. \A t \in Calls : lock[t] \in Calls /\ lock[t] # c => lock'[t] = lock[t]
    BY <1>1, <2>1
  <2> QED BY <1>2, <1>4, <2>1, <2>2
<1>10. CASE CommitRotation(c)
  <2>1. /\ pc[c] = "rotated" /\ tok[c] = "none" /\ tok[shown[c]] # "none"
        /\ Goto(c, "ok") /\ lock' = Unlocked(c) /\ rivals' = Rivals(c)
        /\ tok' = [tok EXCEPT ![shown[c]] = "revoked", ![c] = "live"]
        /\ fam' = [fam EXCEPT ![c] = fam[shown[c]]]
        /\ UNCHANGED <<shown, target>>
    BY <1>1, <1>10 DEF CommitRotation, Born, Aims
  <2>2. pc'[c] = "ok" /\ \A q \in Calls : q # c => pc'[q] = pc[q]
    BY <1>2, <2>1
  <2>3. /\ \A k \in Calls : rivals[k] \subseteq rivals'[k]
        /\ \A k \in Calls : pc[k] = "revoking" => c \in rivals'[k]
    BY <2>1 DEF Rivals
  <2>4. /\ tok'[shown[c]] = "revoked" /\ fam'[c] = fam[shown[c]]
        /\ \A t \in Calls : t # c => fam'[t] = fam[t]
        /\ \A t \in Calls : t # c /\ t # shown[c] => tok'[t] = tok[t]
    BY <1>1, <2>1
  <2> QED BY <1>1, <1>3, <2>1, <2>2, <2>3, <2>4 DEF Footprint
<1>11. CASE RevokeSelects(c)
  <2>1. /\ Goto(c, "revoking") /\ target' = [target EXCEPT ![c] = Family(shown[c])]
        /\ UNCHANGED <<tok, fam, lock, shown, rivals>>
    BY <1>11 DEF RevokeSelects
  <2>2. pc'[c] = "revoking" /\ \A q \in Calls : q # c => pc'[q] = pc[q]
    BY <1>2, <2>1
  <2> QED BY <1>1, <2>1, <2>2 DEF Footprint
<1>12. CASE RevokeRow(c)
  <2>1. PICK t \in target[c] :
           /\ lock[t] = NoCall
           /\ lock' = IF tok[t] = "live" THEN [lock EXCEPT ![t] = c] ELSE lock
           /\ target' = [target EXCEPT ![c] = @ \ {t}]
    BY <1>12 DEF RevokeRow
  <2>2. pc[c] = "revoking" /\ UNCHANGED <<tok, fam, pc, shown, rivals>>
    BY <1>12 DEF RevokeRow
  <2>3. \A q \in Calls : lock[q] \in Calls /\ lock[q] # c => lock'[q] = lock[q]
    BY <1>1, <2>1
  <2> QED BY <1>1, <2>1, <2>2, <2>3 DEF Footprint
<1>13. CASE CommitRevoke(c)
  <2>1. /\ pc[c] = "revoking" /\ target[c] = {} /\ lock' = Unlocked(c)
        /\ tok' = [t \in Calls |-> IF lock[t] = c THEN "revoked" ELSE tok[t]]
        /\ rivals' = [rivals EXCEPT ![c] = @ \cup {k \in Calls : pc[k] \in Rotating}]
        /\ UNCHANGED <<fam, shown, target>>
    BY <1>13 DEF CommitRevoke
  <2>2. PICK l \in {"reused", "ended"} : Goto(c, l)
    BY <1>13 DEF CommitRevoke
  <2>3. pc'[c] = l /\ \A q \in Calls : q # c => pc'[q] = pc[q]
    BY <1>2, <2>2
  <2>4. \A t \in Calls : lock[t] = c => tok[t] # "none"
    BY <1>1, <2>1 DEF Locks
  <2>5. \A k \in Calls : rivals[k] \subseteq rivals'[k]
    BY <1>1, <2>1
  <2>6. tok[c] = "none"
    BY <1>1, <2>1 DEF Born
  <2> QED BY <1>1, <1>3, <2>1, <2>3, <2>4, <2>5, <2>6 DEF Footprint
<1>14. CASE Abort(c)
  <2>1. Goto(c, "aborted") /\ lock' = Unlocked(c) /\ UNCHANGED <<tok, fam, shown, target, rivals>>
    BY <1>14 DEF Abort
  <2>2. pc'[c] = "aborted" /\ \A q \in Calls : q # c => pc'[q] = pc[q]
    BY <1>2, <2>1
  <2> QED BY <1>3, <1>4, <2>1, <2>2
<1> QED
  BY <1>5, <1>6, <1>7, <1>8, <1>9, <1>10, <1>11, <1>12, <1>13, <1>14 DEF Handle

LEMMA FoundedStays ==
    ASSUME IInv, IInv', NEW c \in Calls, Footprint(c), Founded
    PROVE  Founded'
<1> SUFFICES ASSUME NEW T \in SUBSET Calls, T # {}
             PROVE  \E x \in T : fam'[x] # x => shown'[x] \notin T
  BY DEF Founded
<1> DEFINE Old == {x \in T : tok[x] # "none"}
<1>1. CASE Old # {}
  <2>1. PICK x \in Old : fam[x] # x => shown[x] \notin Old
    BY <1>1 DEF Founded
  <2>2. fam'[x] = fam[x] /\ shown'[x] = shown[x] /\ (fam[x] # x => tok[shown[x]] = "revoked")
    BY <2>1 DEF Footprint, IInv, Parent
  <2> QED BY <2>1, <2>2
<1>2. CASE Old = {}
  <2>1. \A x \in T : tok[x] = "none"
    BY <1>2
  <2>2. CASE \E x \in T : x # c
    BY <2>1, <2>2 DEF Footprint, IInv, Born
  <2>3. CASE T = {c}
    BY <2>1, <2>3 DEF Footprint, IInv, Born, Aims
  <2> QED BY <2>2, <2>3
<1> QED BY <1>1, <1>2

\* A token that has escaped c stays so, and so does what is rotated from it.
LEMMA EscapedStays ==
    ASSUME IInv, IInv', NEW c \in Calls, Footprint(c), Founded,
           NEW k \in Calls, NEW t \in Calls, tok[t] # "none", Escaped(k, t)
    PROVE  Escaped(k, t)'
<1>1. Line(t)' = Line(t)
  BY LineStays DEF Footprint, IInv
<1> QED BY <1>1 DEF Escaped, Footprint

LEMMA Rotated ==
    ASSUME IInv, IInv', NEW c \in Calls, Footprint(c), Founded,
           NEW k \in Calls, NEW t \in Calls, t = shown[c],
           pc[c] = "rotated", tok[c] = "none", tok'[c] # "none",
           shown'[c] = shown[c], fam'[c] = fam[shown[c]]
    PROVE  /\ c \in rivals'[k] => Escaped(k, c)'
           /\ Escaped(k, t) /\ fam'[c] # c => Escaped(k, c)'
<1>1. Equation'
  BY LineEquationNext DEF IInv
<1>2. Line(c)' = IF fam'[c] = c THEN {c} ELSE {c} \cup Line(t)'
  BY <1>1 DEF Equation
<1>3. Escaped(k, t) => Escaped(k, t)'
  BY EscapedStays DEF IInv, Aims
<1> QED BY <1>2, <1>3 DEF Escaped

\* A step of c takes nothing from what the others know.
LEMMA RootStays ==
    ASSUME IInv, IInv', NEW c \in Calls, Footprint(c), \A t \in Calls : Root(t),
           NEW t \in Calls
    PROVE  Root(t)'
<1>1. CASE tok[t] # "none"
  BY <1>1 DEF Root, Footprint, IInv, TypeOK
<1>2. CASE tok[t] = "none" /\ t = c
  BY <1>2 DEF Root, Footprint, IInv, TypeOK, Aims
<1>3. CASE tok[t] = "none" /\ t # c
  BY <1>3 DEF Root, Footprint
<1> QED BY <1>1, <1>2, <1>3

LEMMA RacedStays ==
    ASSUME IInv, IInv', NEW c \in Calls, Footprint(c), Histories,
           NEW k \in Calls, k # c
    PROVE  After(k)' /\ Raced(k)'
<1>1. /\ TypeOK /\ Founded /\ After(k) /\ Raced(k) /\ Root(shown[k])
      /\ \A q \in Calls : Aims(q) /\ Root(q)
      /\ pc'[k] = pc[k] /\ shown'[k] = shown[k] /\ target'[k] = target[k] /\ shown[k] \in Calls
  BY DEF IInv, TypeOK, Histories, Footprint
<1>2. After(k)'
  BY <1>1 DEF After, Footprint
<1>3. pc[k] \in {"revoking", "reused", "ended"} =>
         /\ tok[shown[k]] # "none" /\ fam'[shown[k]] = fam[shown[k]]
         /\ tok[fam[shown[k]]] # "none"
  BY <1>1 DEF Aims, After, Root, Footprint
<1>4. ASSUME pc[k] \in {"revoking", "reused", "ended"},
             NEW t \in Calls, tok'[t] = "live", fam'[t] = fam'[shown[k]]
      PROVE  \/ t \in Mates(k)
             \/ Escaped(k, t)'
  <2>1. CASE tok[t] # "none"
    BY <1>3, <1>4, <2>1 DEF Mates, Footprint
  <2>2. CASE tok[t] = "none"
    <3>1. t = c
      BY <1>4, <2>2 DEF Footprint
    <3>2. fam'[c] # c
      BY <1>3, <1>4, <2>2, <3>1
    <3>3. /\ pc[c] = "rotated" /\ shown'[c] = shown[c] /\ fam'[c] = fam[shown[c]]
          /\ pc[k] = "revoking" => c \in rivals'[k]
      BY <1>4, <2>2, <3>1, <3>2 DEF Footprint
    <3>4. PICK s \in Calls : s = shown[c]
      BY <1>1 DEF TypeOK
    <3>5. /\ c \in rivals'[k] => Escaped(k, c)'
          /\ Escaped(k, s) => Escaped(k, c)'
      BY <1>1, <1>4, <2>2, <3>1, <3>2, <3>3, <3>4, Rotated
    <3>6. pc[k] \in {"reused", "ended"} => c \in rivals[k] \/ Escaped(k, s)
      BY <1>1, <1>3, <1>4, <3>1, <3>3, <3>4 DEF Raced
    <3>7. c \in rivals[k] => c \in rivals'[k]
      BY DEF Footprint
    <3> QED BY <1>4, <3>1, <3>3, <3>5, <3>6, <3>7
  <2> QED BY <2>1, <2>2
<1>5. \A t \in Calls : t \in Mates(k) /\ Escaped(k, t) => Escaped(k, t)'
  BY <1>1, EscapedStays DEF Mates
<1>6. Mates(k) \subseteq Calls
  BY DEF Mates
<1>7. \A t \in Calls : lock[t] = k => lock'[t] = k
  BY DEF Footprint
<1>8. pc[k] = "revoking" => \A t \in Calls : (tok'[t] = "live" /\ fam'[t] = fam'[shown[k]]) =>
                                t \in target[k] \/ lock'[t] = k \/ Escaped(k, t)'
  BY <1>1, <1>4, <1>5, <1>7 DEF Raced
<1>9. pc[k] \in {"reused", "ended"} =>
         \A t \in Calls : (tok'[t] = "live" /\ fam'[t] = fam'[shown[k]]) => Escaped(k, t)'
  BY <1>1, <1>4, <1>5 DEF Raced
<1>10. ASSUME pc[k] \in {"reused", "ended"}, NEW q \in Calls, NEW t \in Calls,
              pc'[q] \in Rotating, shown'[q] = t, fam'[t] = fam'[shown[k]]
       PROVE  q \in rivals'[k] \/ Escaped(k, t)'
  <2>1. CASE pc[q] \in Rotating /\ shown[q] = t
    <3>1. tok[t] # "none" /\ fam[t] = fam[shown[k]]
      BY <1>1, <1>3, <1>10, <2>1 DEF Aims, Footprint
    <3>2. q \in rivals[k] \/ Escaped(k, t)
      BY <1>1, <1>10, <2>1, <3>1 DEF Raced
    <3>3. Escaped(k, t) => Escaped(k, t)'
      BY <1>1, <3>1, EscapedStays
    <3> QED BY <3>2, <3>3 DEF Footprint
  <2>2. CASE tok[t] = "live"
    <3>1. t \in Mates(k)
      BY <1>3, <1>10, <2>2 DEF Footprint, Mates
    <3> QED BY <1>1, <1>5, <1>10, <3>1 DEF Raced
  <2> QED BY <1>10, <2>1, <2>2 DEF Footprint
<1>11. Raced(k)'
  BY <1>1, <1>8, <1>9, <1>10 DEF Raced, Mates
<1> QED BY <1>2, <1>11

\* The revoke_family of c: it selects what is alive, locks what has stayed so,
\* and when it commits every rotation that is still open has overlapped it.
LEMMA OwnRaced ==
    ASSUME IInv, IInv', NEW c \in Calls, Handle(c) \/ Abort(c), Footprint(c), Histories
    PROVE  After(c)' /\ Raced(c)'
<1>1. /\ TypeOK /\ Founded /\ Raced(c) /\ Aims(c)
      /\ pc \in [Calls -> Places] /\ rivals \in [Calls -> SUBSET Calls] /\ shown[c] \in Calls
  BY DEF IInv, TypeOK, Histories
<1>2. ASSUME NEW l \in Places, Goto(c, l)
      PROVE  pc'[c] = l
  BY <1>1, <1>2 DEF Goto
<1>3. \A t \in Calls : t \in Mates(c) /\ Escaped(c, t) => Escaped(c, t)'
  BY <1>1, EscapedStays DEF Mates
<1>4. CASE RevokeSelects(c)
  <2>1. /\ Goto(c, "revoking") /\ target' = [target EXCEPT ![c] = Family(shown[c])]
        /\ UNCHANGED <<tok, fam, shown>>
    BY <1>4 DEF RevokeSelects
  <2>2. pc'[c] = "revoking" /\ target'[c] = Family(shown[c])
    BY <1>1, <1>2, <2>1 DEF TypeOK
  <2> QED BY <2>1, <2>2 DEF After, Raced, Mates, Family
<1>5. CASE RevokeRow(c)
  <2>1. PICK u \in target[c] :
           /\ lock[u] = NoCall
           /\ lock' = IF tok[u] = "live" THEN [lock EXCEPT ![u] = c] ELSE lock
           /\ target' = [target EXCEPT ![c] = @ \ {u}]
    BY <1>5 DEF RevokeRow
  <2>2. pc[c] = "revoking" /\ UNCHANGED <<tok, fam, pc, shown>>
    BY <1>5 DEF RevokeRow
  <2>3. /\ target'[c] = target[c] \ {u}
        /\ tok[u] = "live" => lock'[u] = c
        /\ \A t \in Calls : t # u => lock'[t] = lock[t]
    BY <1>1, <2>1 DEF TypeOK
  <2>4. ASSUME NEW t \in Calls, tok'[t] = "live", fam'[t] = fam'[shown'[c]]
        PROVE  t \in target'[c] \/ lock'[t] = c \/ Escaped(c, t)'
    <3>1. t \in Mates(c)
      BY <2>2, <2>4 DEF Mates
    <3>2. t \in target[c] \/ lock[t] = c \/ Escaped(c, t)'
      BY <1>1, <1>3, <2>2, <3>1 DEF Raced
    <3> QED BY <2>2, <2>3, <2>4, <3>2
  <2> QED BY <2>2, <2>4 DEF After, Raced, Mates
<1>6. CASE CommitRevoke(c)
  <2>1. /\ pc[c] = "revoking" /\ target[c] = {}
        /\ tok' = [t \in Calls |-> IF lock[t] = c THEN "revoked" ELSE tok[t]]
        /\ rivals' = [rivals EXCEPT ![c] = @ \cup {k \in Calls : pc[k] \in Rotating}]
        /\ UNCHANGED <<fam, shown>>
    BY <1>6 DEF CommitRevoke
  <2>2. PICK l \in {"reused", "ended"} : Goto(c, l)
    BY <1>6 DEF CommitRevoke
  <2>3. pc'[c] = l /\ \A q \in Calls : q # c => pc'[q] = pc[q]
    BY <1>1, <2>2 DEF Goto
  <2>4. ASSUME NEW t \in Calls, tok'[t] = "live", fam'[t] = fam'[shown'[c]]
        PROVE  Escaped(c, t)'
    <3>1. lock[t] # c /\ t \in Mates(c)
      BY <2>1, <2>4 DEF Mates
    <3> QED BY <1>1, <1>3, <2>1, <2>4, <3>1 DEF Raced
  <2>5. \A q \in Calls : pc'[q] \in Rotating => q \in rivals'[c]
    BY <1>1, <2>1, <2>3
  <2>6. After(c)'
    BY <1>1, <2>1 DEF After, Aims, Footprint
  <2> QED BY <2>3, <2>4, <2>5, <2>6 DEF Raced, Mates
<1>7. CASE \/ RegisterReads(c) \/ RegisterInserts(c) \/ LoginReads(c) \/ OpenSession(c)
           \/ RefreshReads(c) \/ Rotate(c) \/ CommitRotation(c) \/ LogoutReads(c) \/ Abort(c)
  <2>1. \E l \in Places \ {"revoking", "reused", "ended"} : Goto(c, l)
    BY <1>7 DEF RegisterReads, RegisterInserts, LoginReads, OpenSession, RefreshReads, Rotate,
                CommitRotation, LogoutReads, Abort
  <2>2. pc'[c] \notin {"revoking", "reused", "ended"}
    BY <1>2, <2>1
  <2> QED BY <2>2 DEF After, Raced
<1> QED BY <1>4, <1>5, <1>6, <1>7 DEF Handle

LEMMA InitHistories == Init => Histories
<1> SUFFICES ASSUME Init PROVE Histories
  OBVIOUS
<1>1. Founded
  BY DEF Init, Founded
<1>2. ASSUME NEW c \in Calls PROVE Root(c) /\ After(c) /\ Raced(c)
  BY DEF Init, Root, After, Raced
<1> QED BY <1>1, <1>2 DEF Histories

LEMMA AlwaysHistories == Spec => []Histories
<1>1. IInv /\ IInv' /\ Histories /\ [Next]_vars => Histories'
  <2> SUFFICES ASSUME IInv, IInv', Histories, [Next]_vars PROVE Histories'
    OBVIOUS
  <2>1. ASSUME NEW c \in Calls, Handle(c) \/ Abort(c)
        PROVE  Histories'
    <3>1. Footprint(c)
      BY <2>1, StepFootprint
    <3>2. Founded'
      BY <3>1, FoundedStays DEF Histories
    <3>3. \A t \in Calls : Root(t)'
      BY <3>1, RootStays DEF Histories
    <3>4. \A k \in Calls : After(k)' /\ Raced(k)'
      BY <2>1, <3>1, RacedStays, OwnRaced
    <3> QED BY <3>2, <3>3, <3>4 DEF Histories
  <2>2. CASE UNCHANGED vars
    <3>1. /\ fam' = fam /\ shown' = shown /\ pc' = pc /\ tok' = tok /\ lock' = lock
          /\ target' = target /\ rivals' = rivals /\ TypeOK'
      BY <2>2 DEF vars, IInv
    <3>2. ASSUME NEW c \in Calls, NEW t \in Calls, tok[t] # "none"
          PROVE  Escaped(c, t)' <=> Escaped(c, t)
      BY <3>1, <3>2, LineStays DEF Escaped, Histories
    <3>3. Founded' /\ \A c \in Calls : Root(c)' /\ After(c)'
      BY <3>1 DEF Histories, Founded, Root, After
    <3>4. ASSUME NEW c \in Calls PROVE Raced(c)'
      BY <3>1, <3>2 DEF Histories, Raced, Mates, IInv, Aims
    <3> QED BY <3>3, <3>4 DEF Histories
  <2> QED BY <2>1, <2>2 DEF Next
<1> QED BY InitHistories, AlwaysIInv, <1>1, PTL DEF Spec

-----------------------------------------------------------------------------
(* The theorems.                                                           *)

\* Every variable keeps its type, for any number of calls: a token is never in
\* a state other than absent, live or revoked.
THEOREM TypeCorrect == Spec => []TypeOK
<1>1. IInv => TypeOK
  BY DEF IInv
<1> QED BY <1>1, AlwaysIInv, PTL

\* Rotation (refresh_access_token): nothing brings an exchanged token back, even
\* when two refreshes of it race, so every token of a line but its last is dead.
THEOREM ExchangedTokensStayDead == Spec => []ParentsStayRevoked
<1>1. IInv => ParentsStayRevoked
  BY DEF IInv, Parent, ParentsStayRevoked
<1> QED BY <1>1, AlwaysIInv, PTL

Deaths ==
    \A t \in Calls : (tok[t] = "live" /\ tok'[t] = "revoked") =>
        \E c \in Calls : /\ pc[c] # pc'[c] /\ fam[shown[c]] = fam[t]
                         /\ \/ Kind[c] = "refresh" /\ (shown[c] = t \/ pc'[c] = "reused")
                            \/ Kind[c] = "logout" /\ EmailOf[c] = Owner(t)

LEMMA StepsKillTheirOwn == IInv /\ [Next]_vars => [Deaths]_vars
<1> SUFFICES ASSUME IInv, NEW c \in Calls, Handle(c) \/ Abort(c),
                    NEW t \in Calls, tok[t] = "live", tok'[t] = "revoked"
             PROVE  /\ pc[c] # pc'[c] /\ fam[shown[c]] = fam[t]
                    /\ \/ Kind[c] = "refresh" /\ (shown[c] = t \/ pc'[c] = "reused")
                       \/ Kind[c] = "logout" /\ EmailOf[c] = Owner(t)
  BY DEF Next, Deaths
<1>1. TypeOK /\ Born(c) /\ Aims(c) /\ Locks(c)
  BY DEF IInv
<1>2. CASE CommitRotation(c)
  <2>1. /\ pc[c] = "rotated" /\ pc'[c] = "ok"
        /\ tok' = [tok EXCEPT ![shown[c]] = "revoked", ![c] = "live"]
    BY <1>1, <1>2 DEF CommitRotation, Goto, TypeOK
  <2>2. shown[c] = t
    BY <1>1, <2>1 DEF TypeOK
  <2> QED BY <1>1, <2>1, <2>2 DEF Aims
<1>3. CASE CommitRevoke(c)
  <2>1. /\ pc[c] = "revoking" /\ pc'[c] = IF Kind[c] = "refresh" THEN "reused" ELSE "ended"
        /\ tok' = [q \in Calls |-> IF lock[q] = c THEN "revoked" ELSE tok[q]]
    BY <1>1, <1>3 DEF CommitRevoke, Goto, TypeOK
  <2>2. fam[t] = fam[shown[c]]
    BY <1>1, <2>1 DEF Locks
  <2> QED BY <1>1, <2>1, <2>2 DEF Aims, Owner
<1>4. CASE OpenSession(c)
  BY <1>1, <1>4 DEF OpenSession, TypeOK
<1>5. CASE \/ RegisterReads(c) \/ RegisterInserts(c) \/ LoginReads(c) \/ RefreshReads(c)
           \/ Rotate(c) \/ LogoutReads(c) \/ RevokeSelects(c) \/ RevokeRow(c) \/ Abort(c)
  BY <1>5 DEF RegisterReads, RegisterInserts, LoginReads, RefreshReads, Rotate, LogoutReads,
              RevokeSelects, RevokeRow, Abort
<1> QED BY <1>2, <1>3, <1>4, <1>5 DEF Handle

\* logout and revoke_family: a session ends by its own rotation, by a reuse in
\* its own family or by a logout of its own account, never by anybody else's.
THEOREM SessionsAreTheirOwners == Spec => OnlyItsOwnEnds
<1>1. IInv /\ [Next]_vars => [Deaths]_vars
  BY StepsKillTheirOwn
<1> QED
  BY <1>1, AlwaysIInv, PTL DEF Spec, OnlyItsOwnEnds, Deaths

\* revoke_family, after a reuse or a logout: the rows it could not see or that
\* a rotation gave birth to meanwhile all descend from a rotation that was
\* open during it; every other token of the family is dead, and stays so.
THEOREM OnlyRivalsOutlive == Spec => []SurvivorsRaced
<1>1. IInv /\ Histories => SurvivorsRaced
  BY DEF Histories, Raced, Mates, Escaped, SurvivorsRaced
<1> QED BY <1>1, AlwaysIInv, AlwaysHistories, PTL

\* "The entire family is revoked in response", with the proviso under which it
\* is true: no rotation overlapped the call that revoked it.  After that no
\* rotation of the family is under way either, so none of its tokens is reborn.
Unrivalled(c) ==
    (pc[c] \in {"reused", "ended"} /\ rivals[c] = {}) =>
        /\ \A t \in Calls : fam[t] = fam[shown[c]] => tok[t] # "live"
        /\ \A q \in Calls : pc[q] \in Rotating => fam[shown[q]] # fam[shown[c]]

THEOREM UnrivalledRevokeEndsFamily == Spec => [](\A c \in Calls : Unrivalled(c))
<1>1. IInv /\ Histories => \A c \in Calls : Unrivalled(c)
  <2> SUFFICES ASSUME IInv, Histories, NEW c \in Calls PROVE Unrivalled(c)
    OBVIOUS
  <2>1. Raced(c) /\ \A q \in Calls : shown[q] \in Calls
    BY DEF Histories, IInv, TypeOK
  <2> QED BY <2>1 DEF Raced, Mates, Escaped, Unrivalled
<1> QED BY <1>1, AlwaysIInv, AlwaysHistories, PTL
=============================================================================
