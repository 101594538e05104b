------------------------------ MODULE Sessions ------------------------------
(***************************************************************************)
(* app/services/auth.py and app/repositories/refresh_tokens.py: accounts   *)
(* and rotating refresh tokens.  Each call is one READ COMMITTED           *)
(* transaction (deps.get_session), and a step is one of its statements: an *)
(* unlocked SELECT, an UPDATE that may wait for a row, or its end.         *)
(*                                                                         *)
(* A call stores at most one token, so tokens are named by the call that   *)
(* creates them, and a family (family_id) by the call that opens it.       *)
(***************************************************************************)
CONSTANTS Calls,      \* HTTP requests to /auth
          Kind,       \* Kind[c]: the endpoint
          EmailOf,    \* EmailOf[c]: the e-mail in the body, or the caller of logout
          NoCall

Kinds == {"register", "login", "refresh", "logout"}

ASSUME SessionsAssumption == NoCall \notin Calls /\ Kind \in [Calls -> Kinds]

VARIABLES accounts,   \* register calls whose users row is committed
          claim,      \* register calls with an uncommitted users row
          tok,        \* tok[t]: the committed refresh_tokens row
          fam,        \* fam[t]: its family_id
          lock,       \* lock[t]: the transaction that has updated row t
          pc,
          shown,      \* shown[c]: the token c presents
          target,     \* rows of its snapshot that c's revoke_family has still to visit
          rivals      \* history: rotations that overlapped c's revoke_family

vars == <<accounts, claim, tok, fam, lock, pc, shown, target, rivals>>

Rotating == {"rotate", "rotated"}
Revoking == {"doomed", "revoking"}
Open     == {"insert", "opening"} \cup Rotating \cup Revoking
Over     == {"ok", "refused", "unmapped", "reused", "ended", "aborted"}

TypeOK == /\ accounts \subseteq Calls /\ claim \subseteq Calls
          /\ tok \in [Calls -> {"none", "live", "revoked"}]
          /\ fam \in [Calls -> Calls]
          /\ lock \in [Calls -> Calls \cup {NoCall}]
          /\ pc \in [Calls -> {"idle"} \cup Open \cup Over]
          /\ shown \in [Calls -> Calls]
          /\ target \in [Calls -> SUBSET Calls]
          /\ rivals \in [Calls -> SUBSET Calls]

Init == /\ accounts = {} /\ claim = {}
        /\ tok = [t \in Calls |-> "none"]
        /\ fam = [t \in Calls |-> t]
        /\ lock = [t \in Calls |-> NoCall]
        /\ pc = [c \in Calls |-> "idle"]
        /\ shown = [c \in Calls |-> c]
        /\ target = [c \in Calls |-> {}]
        /\ rivals = [c \in Calls |-> {}]

Goto(c, l)   == pc' = [pc EXCEPT ![c] = l]
Arrives(c, k) == pc[c] = "idle" /\ Kind[c] = k
Unlocked(c)  == [t \in Calls |-> IF lock[t] = c THEN NoCall ELSE lock[t]]
SameEmail(c, S) == \E a \in S : EmailOf[a] = EmailOf[c]
Owner(t)     == EmailOf[fam[t]]
Stored       == {t \in Calls : tok[t] # "none"}

-----------------------------------------------------------------------------
(* register_user and login.                                                *)

\* get_by_email.
RegisterReads(c) ==
    /\ Arrives(c, "register")
    /\ Goto(c, IF SameEmail(c, accounts) THEN "refused" ELSE "insert")
    /\ UNCHANGED <<accounts, claim, tok, fam, lock, shown, target, rivals>>

\* INSERT INTO users: UNIQUE(email) makes it wait for an uncommitted row of
\* the same e-mail, and raise an IntegrityError on a committed one.
RegisterInserts(c) ==
    /\ pc[c] = "insert"
    /\ ~SameEmail(c, claim)
    /\ \/ SameEmail(c, accounts) /\ Goto(c, "unmapped") /\ UNCHANGED claim
       \/ ~SameEmail(c, accounts) /\ Goto(c, "opening") /\ claim' = claim \cup {c}
    /\ UNCHANGED <<accounts, tok, fam, lock, shown, target, rivals>>

\* A wrong password or a suspended account is refused, a right one may be.
LoginReads(c) ==
    /\ Arrives(c, "login")
    /\ \/ Goto(c, "refused")
       \/ SameEmail(c, accounts) /\ Goto(c, "opening")
    /\ UNCHANGED <<accounts, claim, tok, fam, lock, shown, target, rivals>>

\* _issue_tokens with a new family_id, and the end of the transaction.
OpenSession(c) ==
    /\ pc[c] = "opening"
    /\ accounts' = accounts \cup (claim \cap {c})
    /\ claim' = claim \ {c}
    /\ tok' = [tok EXCEPT ![c] = "live"]
    /\ fam' = [fam EXCEPT ![c] = c]
    /\ Goto(c, "ok")
    /\ UNCHANGED <<lock, shown, target, rivals>>

-----------------------------------------------------------------------------
(* refresh_access_token.                                                   *)

\* get_by_hash, without a lock.  An unknown token is refused, and a live one is
\* when it has expired; a revoked one is a reuse, expired or not.
RefreshReads(c) ==
    /\ Arrives(c, "refresh")
    /\ \/ Goto(c, "refused") /\ UNCHANGED shown
       \/ \E t \in Stored :
             /\ shown' = [shown EXCEPT ![c] = t]
             /\ \/ tok[t] = "revoked" /\ Goto(c, "doomed")
                \/ tok[t] = "live" /\ Goto(c, "rotate")
    /\ UNCHANGED <<accounts, claim, tok, fam, lock, target, rivals>>

\* UPDATE ... WHERE id: waits for the row, and is not conditional on what the
\* row says by then.
Rotate(c) ==
    /\ pc[c] = "rotate"
    /\ lock[shown[c]] = NoCall
    /\ lock' = [lock EXCEPT ![shown[c]] = c]
    /\ Goto(c, "rotated")
    /\ UNCHANGED <<accounts, claim, tok, fam, shown, target, rivals>>

Rivals(c) == [k \in Calls |-> IF pc[k] = "revoking" THEN rivals[k] \cup {c} ELSE rivals[k]]

CommitRotation_KeepsOld(c) ==
    /\ pc[c] = "rotated"
    /\ tok' = [tok EXCEPT ![c] = "live"]
    /\ fam' = [fam EXCEPT ![c] = fam[shown[c]]]
    /\ rivals' = Rivals(c)
    /\ lock' = Unlocked(c)
    /\ Goto(c, "ok")
    /\ UNCHANGED <<accounts, claim, shown, target>>

CommitRotation_Marks(c) ==
    /\ pc[c] = "rotated"
    /\ tok' = [tok EXCEPT ![shown[c]] = "rotated", ![c] = "live"]
    /\ fam' = [fam EXCEPT ![c] = fam[shown[c]]]
    /\ rivals' = Rivals(c)
    /\ lock' = Unlocked(c)
    /\ Goto(c, "ok")
    /\ UNCHANGED <<accounts, claim, shown, target>>

\* The old token dies and its successor is born.
CommitRotation(c) ==
    /\ pc[c] = "rotated"
    /\ tok' = [tok EXCEPT ![shown[c]] = "revoked", ![c] = "live"]
    /\ fam' = [fam EXCEPT ![c] = fam[shown[c]]]
    /\ rivals' = Rivals(c)
    /\ lock' = Unlocked(c)
    /\ Goto(c, "ok")
    /\ UNCHANGED <<accounts, claim, shown, target>>

-----------------------------------------------------------------------------
(* logout, and the remedy for a reuse: revoke_family.                      *)

LogoutReads_AnyOwner(c) ==
    /\ Arrives(c, "logout")
    /\ SameEmail(c, accounts)
    /\ \/ Goto(c, "ok") /\ UNCHANGED shown
       \/ \E t \in Stored : shown' = [shown EXCEPT ![c] = t] /\ Goto(c, "doomed")
    /\ UNCHANGED <<accounts, claim, tok, fam, lock, target, rivals>>

\* get_current_user has found the caller; an unknown token, or another
\* user's, is not an error and changes nothing.
LogoutReads(c) ==
    /\ Arrives(c, "logout")
    /\ SameEmail(c, accounts)
    /\ \/ Goto(c, "ok") /\ UNCHANGED shown
       \/ \E t \in Stored : /\ Owner(t) = EmailOf[c]
                            /\ shown' = [shown EXCEPT ![c] = t]
                            /\ Goto(c, "doomed")
    /\ UNCHANGED <<accounts, claim, tok, fam, lock, target, rivals>>

Family_JustToken(t) == {t} \cap {q \in Calls : tok[q] = "live"}

\* WHERE family_id = ... AND revoked_at IS NULL.
Family(t) == {q \in Calls : tok[q] = "live" /\ fam[q] = fam[t]}

\* The UPDATE starts: what is committed now is what it will touch.
RevokeSelects(c) ==
    /\ pc[c] = "doomed"
    /\ target' = [target EXCEPT ![c] = Family(shown[c])]
    /\ Goto(c, "revoking")
    /\ UNCHANGED <<accounts, claim, tok, fam, lock, shown, rivals>>

\* A row of the snapshot, in any order: the UPDATE waits while another
\* transaction has it, and passes over it if it is no longer alive by then.
RevokeRow(c) ==
    /\ pc[c] = "revoking"
    /\ \E t \in target[c] :
          /\ lock[t] = NoCall
          /\ lock' = IF tok[t] = "live" THEN [lock EXCEPT ![t] = c] ELSE lock
          /\ target' = [target EXCEPT ![c] = @ \ {t}]
    /\ UNCHANGED <<accounts, claim, tok, fam, pc, shown, rivals>>

\* A reuse commits explicitly before it raises RefreshTokenReusedError.
CommitRevoke(c) ==
    /\ pc[c] = "revoking" /\ target[c] = {}
    /\ tok' = [t \in Calls |-> IF lock[t] = c THEN "revoked" ELSE tok[t]]
    /\ lock' = Unlocked(c)
    /\ rivals' = [rivals EXCEPT ![c] = @ \cup {k \in Calls : pc[k] \in Rotating}]
    /\ Goto(c, IF Kind[c] = "refresh" THEN "reused" ELSE "ended")
    /\ UNCHANGED <<accounts, claim, fam, shown, target>>

-----------------------------------------------------------------------------
Abort_KeepsLocks(c) ==
    /\ pc[c] \in Open
    /\ claim' = claim \ {c}
    /\ Goto(c, "aborted")
    /\ UNCHANGED <<accounts, tok, fam, lock, shown, target, rivals>>

\* A statement, or the commit, fails, or the process dies: rollback.
Abort(c) ==
    /\ pc[c] \in Open
    /\ claim' = claim \ {c}
    /\ lock' = Unlocked(c)
    /\ Goto(c, "aborted")
    /\ UNCHANGED <<accounts, tok, fam, shown, target, rivals>>

Handle(c) == \/ RegisterReads(c) \/ RegisterInserts(c) \/ LoginReads(c) \/ OpenSession(c)
             \/ RefreshReads(c)  \/ Rotate(c)          \/ CommitRotation(c)
             \/ LogoutReads(c)   \/ RevokeSelects(c)   \/ RevokeRow(c)     \/ CommitRevoke(c)

Next == \E c \in Calls : Handle(c) \/ Abort(c)

Spec == Init /\ [][Next]_vars

\* Two UPDATEs of one family may visit its rows in opposite orders, and then
\* each waits for a row that another of them has locked.
Updating == {c \in Calls : pc[c] = "revoking" /\ target[c] # {}}
Deadlocked(c) ==
    \E W \in SUBSET Updating :
        c \in W /\ \A k \in W : \E t \in target[k] : lock[t] \in W \ {k}

\* A call that has arrived is scheduled whenever it can move, and PostgreSQL
\* ends the transactions of a deadlock with an error (deadlock_timeout).
FairSpec == Spec /\ \A c \in Calls : /\ WF_vars(pc[c] # "idle" /\ Handle(c))
                                     /\ WF_vars(Deadlocked(c) /\ Abort(c))

-----------------------------------------------------------------------------
(* Properties.                                                             *)

\* A token that has been exchanged for another stays revoked, through races,
\* aborts and forks of the family: nothing but the newest token of a line works.
ParentsStayRevoked ==
    \A t \in Calls : (tok[t] # "none" /\ fam[t] # t) => tok[shown[t]] = "revoked"

\* The calls that led from the opening of t's family to t.
Line(t) == LET up[q \in Calls] == IF fam[q] = q THEN {q} ELSE {q} \cup up[shown[q]]
           IN  up[t]

\* "the effect (revoking the family) must survive precisely the error we're
\* about to raise", and how far "the entire family is revoked" goes: a token
\* that outlives a reuse or a logout descends from a rotation that overlapped
\* it.  Without an overlapping rotation the session is over.
SurvivorsRaced ==
    \A c \in Calls : pc[c] \in {"reused", "ended"} =>
        \A t \in Calls : (tok[t] = "live" /\ fam[t] = fam[shown[c]]) =>
            Line(t) \cap rivals[c] # {}

\* RefreshTokenReusedError: "The entire family is revoked in response."
ReuseEndsFamily ==
    \A c \in Calls : pc[c] = "reused" =>
        \A t \in Calls : fam[t] = fam[shown[c]] => tok[t] # "live"

\* A token dies by its own rotation, by a reuse in its family or by a logout
\* of its owner: nobody logs out another account's session.
OnlyItsOwnEnds ==
    [][\A t \in Calls : (tok[t] = "live" /\ tok'[t] = "revoked") =>
          \E c \in Calls : /\ pc[c] # pc'[c] /\ fam[shown[c]] = fam[t]
                           /\ \/ Kind[c] = "refresh" /\ (shown[c] = t \/ pc'[c] = "reused")
                              \/ Kind[c] = "logout" /\ EmailOf[c] = Owner(t)]_vars

\* No call waits for ever for a row or for an e-mail: they all come to an end.
EveryCallEnds == <>[](\A c \in Calls : pc[c] \notin Open)
=============================================================================
