--------------------------- MODULE AccountsProofs ---------------------------
(***************************************************************************)
(* Proofs about Accounts, for any number of threads, passwords and         *)
(* requests, any limits and any outages of Valkey.                         *)
(***************************************************************************)
EXTENDS Accounts, FiniteSetTheorems, TLAPS

\* A request is a record with these fields.
Shape(o) == o = [pc |-> o.pc, kind |-> o.kind, pw |-> o.pw, new |-> o.new,
                 code |-> o.code, at |-> o.at, pruned |-> o.pruned]

\* What a request that is about to write has seen in the row still holds:
\* rows are not deleted, addresses stay verified, and a code to be confirmed
\* is a code.
Justified(o) ==
    /\ o.kind \notin {"register", "logout"} => user # None
    /\ o.kind = "login" => user.verified
    /\ o.kind = "confirm" => o.code # None

OpOK(o) ==
    /\ Shape(o)
    /\ o.kind \in Kinds
    /\ o.code \in (1..made) \cup {None}
    /\ o.kind = "register" => o.pw \in Passwords
    /\ o.kind \in {"change", "confirm"} => o.new \in Passwords
    /\ o.pc = "write" => Justified(o)

OpsOK ==
    /\ op = [t \in Threads |-> op[t]]
    /\ \A t \in Threads : OpOK(op[t])

\* One registration has succeeded once there is a row, and a session is one
\* of a verified address.
Owner ==
    /\ joined \in {0, 1} /\ (joined = 1 => user # None)
    /\ session \in BOOLEAN /\ (session => user # None /\ user.verified)

\* A code that was used is an old one, and not that of the row.
Dead ==
    /\ spent \in Seq(1..made)
    /\ user # None => \A i \in 1..Len(spent) : user.rcode # spent[i]

Inv ==
    /\ now \in Nat /\ made \in Nat /\ mailed \subseteq 1..made
    /\ user = None \/ user \in Users
    /\ OpsOK /\ Owner /\ Dead

-----------------------------------------------------------------------------
\* The row and the codes only grow.
Grows ==
    /\ made \in Nat /\ made' \in Nat /\ made <= made'
    /\ user # None => user' # None /\ (user.verified => user'.verified)

LEMMA OpStays ==
    ASSUME NEW o, OpOK(o), Grows
    PROVE  OpOK(o)'
BY DEF OpOK, Shape, Justified, Grows

\* The thread's new request is all there is to look at.
LEMMA OpsStep ==
    ASSUME OpsOK, Grows, NEW t \in Threads, NEW r, OpOK(r)', op' = [op EXCEPT ![t] = r]
    PROVE  OpsOK'
<1>1. op' = [u \in Threads |-> IF u = t THEN r ELSE op[u]]
  BY DEF OpsOK
<1>2. ASSUME NEW u \in Threads PROVE OpOK(op[u])'
  <2>1. CASE u = t
    BY <2>1, <1>1
  <2>2. CASE u # t
    <3>1. op'[u] = op[u]
      BY <2>2, <1>1
    <3>2. \A o : OpOK(o) => OpOK(o)'
      BY OpStays
    <3>. QED
      BY <3>1, <3>2 DEF OpsOK, OpOK, Shape, Justified
  <2>. QED
    BY <2>1, <2>2
<1>. QED
  BY <1>1, <1>2 DEF OpsOK

LEMMA NoOpOK == OpOK(NoOp) /\ OpOK(NoOp)'
BY DEF OpOK, Shape, NoOp, Kinds

\* Before the write a request may move on as it likes.
LEMMA OpMoves ==
    ASSUME NEW o, OpOK(o), NEW pc, pc # "write", NEW at, NEW pruned
    PROVE  OpOK([o EXCEPT !.pc = pc, !.at = at, !.pruned = pruned])
<1>. DEFINE a == [o EXCEPT !.pc = pc]
            b == [a EXCEPT !.at = at]
<1>2. a = [pc |-> pc, kind |-> o.kind, pw |-> o.pw, new |-> o.new,
           code |-> o.code, at |-> o.at, pruned |-> o.pruned]
  BY DEF OpOK, Shape
<1>3. b = [pc |-> pc, kind |-> o.kind, pw |-> o.pw, new |-> o.new,
           code |-> o.code, at |-> at, pruned |-> o.pruned]
  <2>. HIDE DEF a
  <2>. QED
    BY <1>2
<1>4. [b EXCEPT !.pruned = pruned]
        = [pc |-> pc, kind |-> o.kind, pw |-> o.pw, new |-> o.new,
           code |-> o.code, at |-> at, pruned |-> pruned]
  <2>. HIDE DEF b
  <2>. QED
    BY <1>3
<1>5. [o EXCEPT !.pc = pc, !.at = at, !.pruned = pruned] = [b EXCEPT !.pruned = pruned]
  OBVIOUS
<1>1. [o EXCEPT !.pc = pc, !.at = at, !.pruned = pruned]
        = [pc |-> pc, kind |-> o.kind, pw |-> o.pw, new |-> o.new,
           code |-> o.code, at |-> at, pruned |-> pruned]
  BY <1>4, <1>5
<1>. QED
  BY <1>1 DEF OpOK, Shape

LEMMA OpGoesTo ==
    ASSUME NEW o, OpOK(o), NEW pc, pc = "write" => Justified(o)
    PROVE  OpOK([o EXCEPT !.pc = pc])
<1>1. [o EXCEPT !.pc = pc] = [pc |-> pc, kind |-> o.kind, pw |-> o.pw, new |-> o.new,
                              code |-> o.code, at |-> o.at, pruned |-> o.pruned]
  BY DEF OpOK, Shape
<1>. QED
  BY <1>1 DEF OpOK, Shape, Justified

-----------------------------------------------------------------------------
\* Steps that leave the account alone.
LEMMA AccountUntouched ==
    ASSUME Inv, UNCHANGED accountVars
    PROVE  Grows /\ (\A o : OpOK(o) <=> OpOK(o)')
BY DEF Inv, accountVars, Grows, OpOK, Shape, Justified

LEMMA QuietStep ==
    ASSUME Inv, UNCHANGED accountVars, now' \in Nat, OpsOK'
    PROVE  Inv'
BY DEF Inv, accountVars, Owner, Dead

\* The thread has a new request, or is done, and the account is as before.
LEMMA QuietOp ==
    ASSUME Inv, UNCHANGED accountVars, now' = now, NEW t \in Threads, NEW r, OpOK(r),
           op' = [op EXCEPT ![t] = r]
    PROVE  Inv'
<1>1. OpsOK'
  BY OpsStep, AccountUntouched DEF Inv
<1>. QED
  BY <1>1, QuietStep DEF Inv

LEMMA PassKeeps ==
    ASSUME Inv, UNCHANGED accountVars, now' = now, NEW t \in Threads, NEW o, OpOK(o),
           NEW k, NEW time, Pass(t, o, k, time)
    PROVE  Inv'
<1>. DEFINE pc == IF k = "ip" /\ o.kind = "request" THEN "email" ELSE "select"
<1>1. pc # "write"
  OBVIOUS
<1>2. OpOK([o EXCEPT !.pc = pc, !.at = 0, !.pruned = <<>>])
  BY <1>1, OpMoves
<1>. QED
  BY <1>2, QuietOp DEF Pass

LEMMA FinishKeeps ==
    ASSUME Inv, UNCHANGED accountVars, now' = now, NEW t \in Threads, Finish(t)
    PROVE  Inv'
BY NoOpOK, QuietOp DEF Finish

LEMMA MemReadKeeps ==
    ASSUME Inv, UNCHANGED accountVars, now' = now, NEW t \in Threads, NEW o, OpOK(o),
           NEW k \in Limiters, MemRead(t, o, k)
    PROVE  Inv'
<1>1. StorePc[k] # "write"
  BY DEF StorePc, Limiters
<1>2. PICK p : op' = [op EXCEPT ![t] = [o EXCEPT !.pc = StorePc[k], !.at = now, !.pruned = p]]
  BY DEF MemRead
<1>3. OpOK([o EXCEPT !.pc = StorePc[k], !.at = now, !.pruned = p])
  BY <1>1, OpMoves
<1>. QED
  BY <1>2, <1>3, QuietOp

LEMMA CheckLimitKeeps ==
    ASSUME Inv, NEW t \in Threads, NEW o, OpOK(o), NEW k \in Limiters, CheckLimit(t, o, k)
    PROVE  Inv'
<1>1. UNCHANGED accountVars /\ now' = now
  BY DEF CheckLimit
<1>2. Finish(t) \/ Pass(t, o, k, now) \/ MemRead(t, o, k)
  BY DEF CheckLimit
<1>. QED
  BY <1>1, <1>2, FinishKeeps, PassKeeps, MemReadKeeps

LEMMA ArriveKeeps ==
    ASSUME Inv, NEW t \in Threads, Arrive(t)
    PROVE  Inv'
<1>. DEFINE Req(kind, pw, new, code) ==
       [pc |-> "select", kind |-> kind, pw |-> pw, new |-> new, code |-> code,
        at |-> 0, pruned |-> <<>>]
<1>1. PICK kind \in Kinds, pw \in Passwords \cup {None}, new \in Passwords \cup {None},
           code \in mailed \cup {None} :
         /\ pw # None <=> kind \in {"register", "login", "change"}
         /\ new # None <=> kind \in {"change", "confirm"}
         /\ IF kind \in {"logout", "change"}
              THEN /\ op' = [op EXCEPT ![t] = Req(kind, pw, new, code)]
                   /\ UNCHANGED <<now, accountVars, valkeyVars, limitVars>>
              ELSE CheckLimit(t, Req(kind, pw, new, code), "ip")
  BY DEF Arrive
<1>2. OpOK(Req(kind, pw, new, code))
  BY <1>1 DEF OpOK, Shape, Inv
<1>3. CASE kind \in {"logout", "change"}
  <2>. HIDE DEF Req
  <2>. QED
    BY <1>1, <1>2, <1>3, QuietOp
<1>4. CASE kind \notin {"logout", "change"}
  <2>. HIDE DEF Req
  <2>. QED
    BY <1>1, <1>2, <1>4, CheckLimitKeeps DEF Limiters
<1>. QED
  BY <1>3, <1>4

LEMMA MemKeeps ==
    ASSUME Inv, NEW t \in Threads, NEW k \in Limiters, MemStore(t, k) \/ MemAdd(t, k)
    PROVE  Inv'
<1>1. OpOK(op[t])
  BY DEF Inv, OpsOK
<1>2. UNCHANGED accountVars /\ now' = now
  BY DEF MemStore, MemAdd
<1>3. CASE MemStore(t, k)
  <2>1. AddPc[k] # "write"
    BY DEF AddPc, Limiters
  <2>2. OpOK([op[t] EXCEPT !.pc = AddPc[k]])
    BY <1>1, <2>1, OpGoesTo
  <2>3. CASE op' = [op EXCEPT ![t].pc = AddPc[k]]
    <3>1. op' = [op EXCEPT ![t] = [op[t] EXCEPT !.pc = AddPc[k]]]
      BY <2>3
    <3>. QED
      BY <3>1, <2>2, <1>2, QuietOp
  <2>. QED
    BY <1>3, <1>2, <2>3, FinishKeeps DEF MemStore
<1>4. CASE MemAdd(t, k)
  BY <1>1, <1>2, <1>4, PassKeeps DEF MemAdd
<1>. QED
  BY <1>3, <1>4

\* The decision is what the write relies on.
LEMMA SelectKeeps ==
    ASSUME Inv, NEW t \in Threads, Select(t)
    PROVE  Inv'
<1>1. OpOK(op[t])
  BY DEF Inv, OpsOK
<1>2. UNCHANGED accountVars /\ now' = now
  BY DEF Select
<1>3. CASE Accepts(op[t])
  <2>1. Justified(op[t])
    BY <1>1, <1>3 DEF Accepts, Justified, OpOK, Kinds
  <2>2. OpOK([op[t] EXCEPT !.pc = "write"])
    BY <1>1, <2>1, OpGoesTo
  <2>3. op' = [op EXCEPT ![t] = [op[t] EXCEPT !.pc = "write"]]
    BY <1>3 DEF Select
  <2>. QED
    BY <2>2, <2>3, <1>2, QuietOp
<1>4. CASE ~Accepts(op[t])
  BY <1>2, <1>4, FinishKeeps DEF Select
<1>. QED
  BY <1>3, <1>4

-----------------------------------------------------------------------------
\* The writes of UserManager.  A request that writes has been let through by
\* Select, so the row it updates is there.
LEMMA Written ==
    ASSUME Inv, NEW t \in Threads, NEW kind, Writes(t, kind)
    PROVE  /\ OpOK(op[t]) /\ op[t].kind = kind /\ Justified(op[t])
           /\ kind \notin {"register", "logout"} => user # None /\ user \in Users
           /\ now' = now
BY DEF Inv, OpsOK, OpOK, Writes, Justified

LEMMA WriteKeeps ==
    ASSUME Inv, NEW t \in Threads, NEW kind, Writes(t, kind), Grows,
           mailed' \subseteq 1..made', user' = None \/ user' \in Users, Owner', Dead'
    PROVE  Inv'
<1>1. OpsOK'
  BY NoOpOK, OpsStep DEF Inv, Writes, Finish
<1>. QED
  BY <1>1 DEF Inv, Writes, Grows

\* A row that is there is not None.
LEMMA RowsAreRows == \A u \in Users : u # None
BY AccountsAssumption

\* MakeCode makes a number that was not there before.
LEMMA CodeMade ==
    ASSUME Inv, MakeCode
    PROVE  /\ made' = made + 1 /\ made' \in Nat /\ made \in Nat /\ made' # None
           /\ mailed' \subseteq 1..made'
           /\ \A i \in 1..Len(spent) : spent[i] # made'
           /\ spent \in Seq(1..made')
<1>1. made \in Nat /\ made' = made + 1 /\ mailed' \subseteq 1..made'
  BY DEF Inv, MakeCode
<1>2. \A i \in 1..Len(spent) : spent[i] \in 1..made
  BY DEF Inv, Dead
<1>3. 1..made \subseteq 1..made'
  BY <1>1
<1>. QED
  BY <1>1, <1>2, <1>3, AccountsAssumption DEF Inv, Dead

LEMMA InsertKeeps ==
    ASSUME Inv, NEW t \in Threads, Insert(t)
    PROVE  Inv'
<1>. DEFINE row == [pw |-> op[t].pw, verified |-> FALSE, vcode |-> made + 1,
                    rcode |-> None, until |-> None]
<1>1. /\ Writes(t, "register") /\ OpOK(op[t]) /\ op[t].kind = "register"
      /\ UNCHANGED <<session, spent>>
  BY Written DEF Insert
<1>2. CASE user # None
  <2>1. UNCHANGED <<made, mailed, user, joined>>
    BY <1>2 DEF Insert
  <2>2. Grows /\ Owner' /\ Dead'
    BY <1>1, <2>1 DEF Inv, Grows, Owner, Dead
  <2>. QED
    BY <1>1, <2>1, <2>2, WriteKeeps DEF Inv
<1>3. CASE user = None
  <2>1. MakeCode /\ user' = row /\ joined' = joined + 1
    BY <1>3 DEF Insert
  <2>2. row \in Users
    BY <1>1, CodeMade, <2>1 DEF OpOK, Users
  <2>3. user' # None /\ user'.rcode = None
    BY <2>1, <2>2, RowsAreRows
  <2>4. Grows
    BY <1>3, <2>1, CodeMade DEF Grows
  <2>5. Owner'
    BY <1>1, <1>3, <2>1, <2>3 DEF Inv, Owner
  <2>6. \A i \in 1..Len(spent) : spent[i] \in Nat
    BY <2>1, CodeMade DEF Inv, Dead
  <2>7. Dead'
    BY <1>1, <2>1, <2>3, <2>6, CodeMade, AccountsAssumption DEF Dead
  <2>. QED
    BY <1>1, <2>1, <2>2, <2>4, <2>5, <2>7, WriteKeeps, CodeMade
<1>. QED
  BY <1>2, <1>3

\* Updates that leave reset codes alone, and do not make addresses unverified.
LEMMA UpdateKeeps ==
    ASSUME Inv, NEW t \in Threads, NEW kind, kind \notin {"register", "logout"}, Writes(t, kind),
           NEW row \in Users, user' = row, row.rcode = user.rcode,
           user.verified => row.verified,
           MakeCode \/ UNCHANGED <<made, mailed>>, UNCHANGED <<session, spent, joined>>
    PROVE  Inv'
<1>1. user # None /\ user' # None /\ user' \in Users
  BY Written, RowsAreRows
<1>2. Grows /\ mailed' \subseteq 1..made' /\ spent \in Seq(1..made')
  <2>1. CASE MakeCode
    BY <1>1, <2>1, CodeMade DEF Grows
  <2>2. CASE UNCHANGED <<made, mailed>>
    BY <1>1, <2>2 DEF Grows, Inv, Dead
  <2>. QED
    BY <2>1, <2>2
<1>3. Owner' /\ Dead'
  BY <1>1, <1>2 DEF Inv, Owner, Dead
<1>. QED
  BY <1>1, <1>2, <1>3, WriteKeeps

LEMMA VerifyKeeps ==
    ASSUME Inv, NEW t \in Threads, Verify(t)
    PROVE  Inv'
<1>. DEFINE row == [user EXCEPT !.verified = TRUE, !.vcode = None]
<1>1. user \in Users /\ Writes(t, "verify")
  BY Written DEF Verify
<1>2. row \in Users /\ row.rcode = user.rcode /\ row.verified
  BY <1>1 DEF Users
<1>3. user' = row /\ UNCHANGED <<made, mailed>> /\ UNCHANGED <<session, spent, joined>>
  BY DEF Verify
<1>. HIDE DEF row
<1>. QED
  BY <1>1, <1>2, <1>3, UpdateKeeps

LEMMA ResendKeeps ==
    ASSUME Inv, NEW t \in Threads, Resend(t)
    PROVE  Inv'
<1>. DEFINE row == [user EXCEPT !.vcode = made + 1]
<1>1. user \in Users /\ Writes(t, "resend") /\ made + 1 \in Nat
  BY Written DEF Resend, Inv
<1>2. row \in Users /\ row.rcode = user.rcode /\ row.verified = user.verified
  BY <1>1 DEF Users
<1>3. user' = row /\ MakeCode /\ UNCHANGED <<session, spent, joined>>
  BY DEF Resend
<1>. HIDE DEF row
<1>. QED
  BY <1>1, <1>2, <1>3, UpdateKeeps

LEMMA ChangeKeeps ==
    ASSUME Inv, NEW t \in Threads, Change(t)
    PROVE  Inv'
<1>. DEFINE row == [user EXCEPT !.pw = op[t].new]
<1>1. user \in Users /\ Writes(t, "change") /\ op[t].new \in Passwords
  BY Written DEF Change, OpOK
<1>2. row \in Users /\ row.rcode = user.rcode /\ row.verified = user.verified
  BY <1>1 DEF Users
<1>3. user' = row /\ UNCHANGED <<made, mailed>> /\ UNCHANGED <<session, spent, joined>>
  BY DEF Change
<1>. HIDE DEF row
<1>. QED
  BY <1>1, <1>2, <1>3, UpdateKeeps

LEMMA LogKeeps ==
    ASSUME Inv, NEW t \in Threads, Log(t)
    PROVE  Inv'
<1>1. UNCHANGED <<user, made, mailed, spent, joined>>
  BY DEF Log
<1>2. Grows /\ Dead' /\ mailed' \subseteq 1..made' /\ (user' = None \/ user' \in Users)
  BY <1>1 DEF Inv, Grows, Dead
<1>3. CASE Writes(t, "login") /\ session' = TRUE
  <2>1. user # None /\ user.verified
    BY <1>3, Written DEF Justified
  <2>2. Owner'
    BY <1>1, <1>3, <2>1 DEF Inv, Owner
  <2>. QED
    BY <1>2, <1>3, <2>2, WriteKeeps
<1>4. CASE Writes(t, "logout") /\ session' = FALSE
  <2>1. Owner'
    BY <1>1, <1>4 DEF Inv, Owner
  <2>. QED
    BY <1>2, <1>4, <2>1, WriteKeeps
<1>. QED
  BY <1>3, <1>4 DEF Log

\* A new reset code is younger than all that were used.
LEMMA RequestResetKeeps ==
    ASSUME Inv, NEW t \in Threads, RequestReset(t)
    PROVE  Inv'
<1>. DEFINE row == [user EXCEPT !.rcode = made + 1, !.until = now + CodeLife]
<1>1. /\ user \in Users /\ user # None /\ Writes(t, "request") /\ MakeCode
      /\ user' = row /\ UNCHANGED <<session, spent, joined>>
  BY Written DEF RequestReset
<1>2. made + 1 \in Nat /\ now + CodeLife \in Nat
  BY AccountsAssumption DEF Inv
<1>3. row \in Users /\ row.rcode = made + 1 /\ row.verified = user.verified
  BY <1>1, <1>2 DEF Users
<1>4. user' # None
  BY <1>1, <1>3, RowsAreRows
<1>5. Grows
  BY <1>1, <1>3, <1>4, CodeMade DEF Grows
<1>6. Owner'
  BY <1>1, <1>3, <1>4 DEF Inv, Owner
<1>7. Dead'
  BY <1>1, <1>3, CodeMade DEF Dead
<1>. QED
  BY <1>1, <1>3, <1>5, <1>6, <1>7, CodeMade, WriteKeeps

\* The code that is spent is cleared with the write.
LEMMA ResetKeeps ==
    ASSUME Inv, NEW t \in Threads, Reset(t)
    PROVE  Inv'
<1>. DEFINE row == [user EXCEPT !.pw = op[t].new, !.rcode = None, !.until = None]
<1>1. /\ user \in Users /\ user # None /\ Writes(t, "confirm")
      /\ user' = row /\ spent' = Append(spent, op[t].code)
      /\ UNCHANGED <<session, made, mailed, joined>>
  BY Written DEF Reset
<1>2. op[t].new \in Passwords /\ op[t].code \in 1..made
  BY <1>1, Written DEF OpOK, Justified
<1>3. row \in Users /\ row.rcode = None /\ row.verified = user.verified
  BY <1>1, <1>2 DEF Users
<1>4. user' # None
  BY <1>1, <1>3, RowsAreRows
<1>5. Grows /\ mailed' \subseteq 1..made'
  BY <1>1, <1>3, <1>4 DEF Inv, Grows
<1>6. Owner'
  BY <1>1, <1>3, <1>4 DEF Inv, Owner
<1>7. Dead'
  <2>1. spent' \in Seq(1..made)
    BY <1>1, <1>2 DEF Inv, Dead
  <2>2. \A i \in 1..Len(spent') : spent'[i] \in 1..made
    BY <2>1 DEF Inv
  <2>3. None \notin 1..made
    BY AccountsAssumption
  <2>. QED
    BY <1>1, <1>3, <2>1, <2>2, <2>3 DEF Dead
<1>. QED
  BY <1>1, <1>3, <1>5, <1>6, <1>7, WriteKeeps

-----------------------------------------------------------------------------
LEMMA Initially == Init => Inv
<1>. SUFFICES ASSUME Init PROVE Inv
  OBVIOUS
<1>1. OpsOK
  BY NoOpOK DEF Init, OpsOK
<1>2. Owner
  <2>1. joined \in {0, 1} /\ (joined = 1 => user # None)
    BY DEF Init
  <2>2. session \in BOOLEAN /\ (session => user # None /\ user.verified)
    BY Zenon DEF Init
  <2>. QED
    BY <2>1, <2>2, Zenon DEF Owner
<1>3. Dead
  <2>1. <<>> \in Seq(1..made)
    OBVIOUS
  <2>. QED
    BY <2>1 DEF Init, Dead
<1>. QED
  BY <1>1, <1>2, <1>3 DEF Init, Inv

LEMMA Inductive ==
    ASSUME Inv, [Next]_vars
    PROVE  Inv'
<1>1. ASSUME NEW t \in Threads, CheckEmail(t) PROVE Inv'
  BY <1>1, CheckLimitKeeps DEF CheckEmail, Limiters, Inv, OpsOK
<1>2. CASE Tick \/ Outage \/ UNCHANGED vars
  <2>1. UNCHANGED <<op, accountVars>> /\ now' \in Nat
    BY <1>2 DEF Tick, Outage, vars, accountVars, Inv
  <2>2. OpsOK'
    BY <2>1, AccountUntouched DEF Inv, OpsOK, OpOK, Shape, Justified, accountVars
  <2>. QED
    BY <2>1, <2>2, QuietStep
<1>. QED
  BY <1>1, <1>2, ArriveKeeps, SelectKeeps, InsertKeeps, VerifyKeeps, ResendKeeps, LogKeeps,
     ChangeKeeps, RequestResetKeeps, ResetKeeps, MemKeeps DEF Next

\* OneVerifiedOwner: however register, verify, login and the resets of any
\* number of threads interleave between their SELECT and their write, one
\* registration succeeds and a session is one of a verified address.
THEOREM OneOwner == Spec => []OneVerifiedOwner
<1>1. Inv => OneVerifiedOwner
  BY DEF Inv, Owner, OneVerifiedOwner
<1>. QED
  BY <1>1, Initially, Inductive, PTL DEF Spec

\* SpentCodeDead: the reset code of the row is never one that has set a
\* password before.
THEOREM SpentStaysDead == Spec => []SpentCodeDead
<1>1. Inv => SpentCodeDead
  BY DEF Inv, Dead, SpentCodeDead
<1>. QED
  BY <1>1, Initially, Inductive, PTL DEF Spec

-----------------------------------------------------------------------------
(* A counter that every request extends                                   *)

\* N counts the requests whose time lies in a set of times.
Measure(N) ==
    /\ N \in [SUBSET Nat -> Nat]
    /\ \A A, B \in SUBSET Nat : /\ A \subseteq B => N[A] <= N[B]
                                /\ N[A \cup B] <= N[A] + N[B]

Since(s) == {x \in Nat : x >= s}
Reaching(u, w) == {x \in Nat : x + w > u}
Span(u, w) == {x \in Nat : u <= x /\ x <= u + w - 1}

\* The requests since s are at most n and within the limit, and those before
\* were over by then.
Chain(N, s, n, time, max, w) ==
    /\ s <= time
    /\ N[Since(s)] <= n /\ N[Since(s)] <= max
    /\ N[Reaching(s, w) \ Since(s)] = 0

\* The counter of a limiter and the times let through: every one of them is
\* over when the counter expires; those since the counter last began anew, at
\* s, are within it and the limit, and all before were over by then.
Under(N, c, time, max, w) ==
    /\ c.count \in Nat /\ c.until \in Nat /\ c.until <= time + w
    /\ N[Reaching(c.until, w)] = 0
    /\ \E s \in Nat : Chain(N, s, c.count, time, max, w)
    /\ \A u \in Nat : N[Span(u, w)] <= max

\* The counter after INCR and EXPIRE.
Before(c, time) == IF c.until > time THEN c.count ELSE 0
Extended(c, time, w) == [count |-> Before(c, time) + 1, until |-> time + w]

LEMMA SpanFacts ==
    ASSUME NEW u \in Nat, NEW w \in Nat
    PROVE  /\ Span(u, w) \in SUBSET Nat /\ Since(u) \in SUBSET Nat /\ Reaching(u, w) \in SUBSET Nat
           /\ Reaching(u, w) \ Since(u) \in SUBSET Nat
BY DEF Span, Since, Reaching

\* Requests that are given up, and time that passes, do no harm.
LEMMA FewerUnder ==
    ASSUME NEW N, Measure(N), NEW M, Measure(M), \A A \in SUBSET Nat : M[A] <= N[A],
           NEW c, NEW time \in Nat, NEW later \in Nat, time <= later,
           NEW max \in Nat, NEW w \in Nat, Under(N, c, time, max, w)
    PROVE  Under(M, c, later, max, w)
<1>1. \A A \in SUBSET Nat : N[A] \in Nat /\ M[A] \in Nat /\ M[A] <= N[A]
  BY DEF Measure
<1>2. PICK s \in Nat : Chain(N, s, c.count, time, max, w)
  BY DEF Under
<1>3. c.count \in Nat /\ c.until \in Nat /\ c.until <= later + w
  <2>1. c.count \in Nat /\ c.until \in Nat /\ c.until <= time + w
    BY DEF Under
  <2>. QED
    BY <2>1
<1>4. Chain(M, s, c.count, later, max, w)
  <2>1. Since(s) \in SUBSET Nat /\ Reaching(s, w) \ Since(s) \in SUBSET Nat
    BY SpanFacts
  <2>. QED
    BY <1>1, <1>2, <1>3, <2>1 DEF Chain
<1>5. M[Reaching(c.until, w)] = 0
  BY <1>1, <1>3, SpanFacts DEF Under
<1>6. \A u \in Nat : M[Span(u, w)] <= max
  BY <1>1, SpanFacts DEF Under
<1>. QED
  BY <1>3, <1>4, <1>5, <1>6 DEF Under

\* Where the chain of requests begins after INCR: where it did, or now, when
\* the counter had expired.
LEMMA ChainBegins ==
    ASSUME NEW N, Measure(N), NEW c, NEW time \in Nat, NEW max \in Nat, NEW w \in Nat \ {0},
           Under(N, c, time, max, w)
    PROVE  /\ Before(c, time) \in Nat
           /\ \E s \in Nat : Chain(N, s, Before(c, time), time, max, w)
<1>1. \A A \in SUBSET Nat : N[A] \in Nat
  BY DEF Measure
<1>2. CASE c.until > time
  BY <1>2 DEF Before, Under
<1>3. CASE ~(c.until > time)
  <2>1. Before(c, time) = 0
    BY <1>3 DEF Before
  <2>2. c.until \in Nat /\ c.until <= time
    BY <1>3 DEF Under
  <2>3. Since(time) \subseteq Reaching(c.until, w) /\ Reaching(time, w) \subseteq Reaching(c.until, w)
    BY <2>2 DEF Since, Reaching
  <2>4. N[Reaching(c.until, w)] = 0
    BY DEF Under
  <2>5. N[Since(time)] <= 0 /\ N[Reaching(time, w) \ Since(time)] <= 0
    BY <2>2, <2>3, <2>4, SpanFacts DEF Measure
  <2>6. N[Since(time)] = 0 /\ N[Reaching(time, w) \ Since(time)] = 0
    BY <2>5, <1>1, SpanFacts
  <2>7. Chain(N, time, 0, time, max, w)
    BY <2>6 DEF Chain
  <2>. QED
    BY <2>1, <2>7
<1>. QED
  BY <1>2, <1>3

\* Nothing that was let through outlasts a counter that is extended now.
LEMMA NoneOutlasts ==
    ASSUME NEW N, Measure(N), NEW c, NEW time \in Nat, NEW max \in Nat, NEW w \in Nat \ {0},
           Under(N, c, time, max, w)
    PROVE  N[Reaching(time + w, w)] = 0
<1>1. c.until \in Nat /\ c.until <= time + w /\ N[Reaching(c.until, w)] = 0
  BY DEF Under
<1>2. Reaching(time + w, w) \subseteq Reaching(c.until, w)
  BY <1>1 DEF Reaching
<1>3. time + w \in Nat
  OBVIOUS
<1>4. Reaching(time + w, w) \in SUBSET Nat /\ Reaching(c.until, w) \in SUBSET Nat
  BY <1>1, <1>3, SpanFacts
<1>5. N[Reaching(time + w, w)] <= N[Reaching(c.until, w)] /\ N[Reaching(time + w, w)] \in Nat
  BY <1>2, <1>4 DEF Measure
<1>. QED
  BY <1>1, <1>5

\* A refused request extends the counter.
LEMMA RefusedUnder ==
    ASSUME NEW N, Measure(N), NEW c, NEW time \in Nat, NEW max \in Nat, NEW w \in Nat \ {0},
           Under(N, c, time, max, w)
    PROVE  Under(N, Extended(c, time, w), time, max, w)
<1>. DEFINE d == Extended(c, time, w)
<1>1. Before(c, time) \in Nat /\ d.count = Before(c, time) + 1 /\ d.until = time + w
  BY ChainBegins DEF Extended
<1>2. PICK s \in Nat : Chain(N, s, Before(c, time), time, max, w)
  BY ChainBegins
<1>. HIDE DEF d
<1>3. Chain(N, s, d.count, time, max, w)
  <2>1. Since(s) \in SUBSET Nat
    BY SpanFacts
  <2>2. N[Since(s)] \in Nat
    BY <2>1 DEF Measure
  <2>. QED
    BY <1>1, <1>2, <2>2 DEF Chain
<1>4. N[Reaching(d.until, w)] = 0
  BY <1>1, NoneOutlasts
<1>5. \A u \in Nat : N[Span(u, w)] <= max
  BY DEF Under
<1>6. d.count \in Nat /\ d.until \in Nat /\ d.until <= time + w
  BY <1>1
<1>7. Under(N, d, time, max, w)
  BY <1>3, <1>4, <1>5, <1>6 DEF Under
<1>. QED
  BY <1>7 DEF d

\* A request the counter allows is within the limit, wherever the window
\* begins.
LEMMA AllowedUnder ==
    ASSUME NEW N, Measure(N), NEW M, Measure(M),
           NEW c, NEW time \in Nat, NEW max \in Nat, NEW w \in Nat \ {0},
           \A A \in SUBSET Nat : M[A] = N[A] + (IF time \in A THEN 1 ELSE 0),
           Under(N, c, time, max, w), Extended(c, time, w).count <= max
    PROVE  Under(M, Extended(c, time, w), time, max, w)
<1>. DEFINE d == Extended(c, time, w)
<1>1. \A A \in SUBSET Nat : /\ N[A] \in Nat /\ M[A] \in Nat
                            /\ time \in A => M[A] = N[A] + 1
                            /\ time \notin A => M[A] = N[A]
  BY DEF Measure
<1>2. /\ Before(c, time) \in Nat /\ d.count = Before(c, time) + 1 /\ d.until = time + w
      /\ d.count <= max
  BY ChainBegins DEF Extended
<1>3. PICK s \in Nat : Chain(N, s, Before(c, time), time, max, w)
  BY ChainBegins
<1>4. s <= time /\ N[Since(s)] <= Before(c, time) /\ N[Reaching(s, w) \ Since(s)] = 0
  BY <1>3 DEF Chain
<1>. HIDE DEF d
<1>5. Since(s) \in SUBSET Nat /\ Reaching(s, w) \ Since(s) \in SUBSET Nat
  BY SpanFacts
<1>6. M[Since(s)] <= d.count
  <2>1. time \in Since(s)
    BY <1>4 DEF Since
  <2>2. M[Since(s)] = N[Since(s)] + 1 /\ N[Since(s)] \in Nat
    BY <1>1, <1>5, <2>1
  <2>. QED
    BY <1>2, <1>4, <2>2
<1>7. Chain(M, s, d.count, time, max, w)
  <2>1. time \notin Reaching(s, w) \ Since(s)
    BY <1>4 DEF Since
  <2>2. M[Reaching(s, w) \ Since(s)] = 0
    BY <1>1, <1>4, <1>5, <2>1
  <2>3. M[Since(s)] \in Nat
    BY <1>1, <1>5
  <2>. QED
    BY <1>2, <1>4, <1>6, <2>2, <2>3 DEF Chain
<1>8. M[Reaching(d.until, w)] = 0
  <2>1. d.until \in Nat /\ time \notin Reaching(d.until, w)
    BY <1>2 DEF Reaching
  <2>2. Reaching(d.until, w) \in SUBSET Nat
    BY <2>1, SpanFacts
  <2>3. N[Reaching(d.until, w)] = 0
    BY <1>2, NoneOutlasts
  <2>. QED
    BY <1>1, <2>1, <2>2, <2>3
<1>9. ASSUME NEW u \in Nat PROVE M[Span(u, w)] <= max
  <2>. Span(u, w) \in SUBSET Nat
    BY SpanFacts
  <2>1. CASE time \notin Span(u, w)
    BY <1>1, <2>1 DEF Under
  <2>2. CASE time \in Span(u, w)
    <3>1. Span(u, w) \subseteq (Reaching(s, w) \ Since(s)) \cup Since(s)
      BY <1>4, <2>2 DEF Span, Since, Reaching
    <3>. DEFINE both == (Reaching(s, w) \ Since(s)) \cup Since(s)
    <3>2. both \in SUBSET Nat /\ Span(u, w) \subseteq both
      BY <1>5, <3>1
    <3>3. N[both] <= N[Reaching(s, w) \ Since(s)] + N[Since(s)]
      BY <1>5 DEF Measure
    <3>. HIDE DEF both
    <3>4. N[Span(u, w)] <= N[both]
      BY <3>2 DEF Measure
    <3>5. N[both] \in Nat /\ N[Since(s)] \in Nat /\ M[Span(u, w)] = N[Span(u, w)] + 1 /\ N[Span(u, w)] \in Nat
      BY <1>1, <1>5, <2>2, <3>2
    <3>. QED
      BY <1>2, <1>4, <3>3, <3>4, <3>5
  <2>. QED
    BY <2>1, <2>2
<1>10. d.count \in Nat /\ d.until \in Nat /\ d.until <= time + w
  BY <1>2
<1>11. Under(M, d, time, max, w)
  BY <1>7, <1>8, <1>9, <1>10 DEF Under
<1>. QED
  BY <1>11 DEF d

-----------------------------------------------------------------------------
(* Induction on the natural numbers                                        *)

\* A set with 0 and the successor of each of its naturals holds every natural:
\* of the intervals 0..n, n not in the set, one is least under inclusion.
LEMMA SetInduction ==
    ASSUME NEW P, 0 \in P, \A n \in Nat : n \in P => n + 1 \in P
    PROVE  Nat \subseteq P
<1>. SUFFICES ASSUME ~(Nat \subseteq P) PROVE FALSE
  OBVIOUS
<1>. DEFINE R == StrictSubsetOrdering(Nat)
            F == FiniteSubsetsOf(Nat)
            I == {0..n : n \in Nat \ P}
<1>1. IsWellFoundedOn(R, F)
  BY FS_StrictSubsetOrderingWellFounded
<1>2. I \subseteq F /\ I # {}
  <2>1. \A n \in Nat : IsFiniteSet(0..n) /\ 0..n \subseteq Nat
    BY FS_Interval
  <2>. QED
    BY <2>1 DEF FiniteSubsetsOf
<1>3. PICK s \in I : \A t \in I : <<t, s>> \notin R
  <2>. HIDE DEF R, F, I
  <2>. QED
    BY <1>1, <1>2, WFMin
<1>4. PICK n \in Nat \ P : s = 0..n
  BY <1>3
<1>5. n # 0 /\ n - 1 \in Nat /\ (n - 1) + 1 = n /\ n - 1 \notin P
  BY <1>4
<1>6. 0..(n - 1) \subseteq 0..n /\ n \notin 0..(n - 1) /\ n \in 0..n
  BY <1>4, <1>5
<1>7. <<0..(n - 1), s>> \in R
  BY <1>4, <1>5, <1>6 DEF StrictSubsetOrdering
<1>. QED
  BY <1>3, <1>5, <1>7

\* The recursion of Live, cut off at n.
LiveUpTo(f, s, k, n) ==
    f = [i \in 0..n |->
            IF i = 0 THEN <<>>
            ELSE IF s[i] + Window[k] > now THEN Append(f[i - 1], s[i]) ELSE f[i - 1]]

LEMMA LiveExists ==
    ASSUME NEW s, NEW k, NEW n \in Nat
    PROVE  \E f : LiveUpTo(f, s, k, n)
<1>. DEFINE P == {m \in Nat : \E f : LiveUpTo(f, s, k, m)}
<1>1. 0 \in P
  <2>1. LiveUpTo([i \in 0..0 |-> <<>>], s, k, 0)
    BY DEF LiveUpTo
  <2>. QED
    BY <2>1
<1>2. ASSUME NEW m \in Nat, m \in P PROVE m + 1 \in P
  <2>1. PICK f : LiveUpTo(f, s, k, m)
    BY <1>2
  <2>. DEFINE Entry(h, i) == IF s[i] + Window[k] > now THEN Append(h[i - 1], s[i]) ELSE h[i - 1]
              g == [i \in 0..(m + 1) |-> IF i <= m THEN f[i] ELSE Entry(f, i)]
  <2>2. \A i \in 0..m : f[i] = IF i = 0 THEN <<>> ELSE Entry(f, i)
    BY <2>1 DEF LiveUpTo
  <2>3. \A i \in 0..m : g[i] = f[i]
    OBVIOUS
  <2>4. \A i \in 0..(m + 1) : i # 0 => i - 1 \in 0..m
    OBVIOUS
  <2>5. ASSUME NEW i \in 0..(m + 1) PROVE g[i] = IF i = 0 THEN <<>> ELSE Entry(g, i)
    <3>1. CASE i \in 0..m
      <4>. HIDE DEF g
      <4>. QED
        BY <3>1, <2>2, <2>3, <2>4
    <3>2. CASE i = m + 1
      <4>1. i # 0 /\ i - 1 \in 0..m /\ ~(i <= m)
        BY <3>2
      <4>2. g[i] = Entry(f, i)
        BY <4>1
      <4>. HIDE DEF g
      <4>. QED
        BY <4>1, <4>2, <2>3
    <3>. QED
      BY <3>1, <3>2
  <2>6. LiveUpTo(g, s, k, m + 1)
    <3>. g = [i \in 0..(m + 1) |-> g[i]]
      OBVIOUS
    <3>. HIDE DEF g
    <3>. QED
      BY <2>5 DEF LiveUpTo
  <2>. QED
    BY <2>6
<1>. HIDE DEF P
<1>3. Nat \subseteq P
  BY <1>1, <1>2, SetInduction
<1>. QED
  BY <1>3 DEF P

\* Pruning keeps times, and no more than there were.
LEMMA LiveFacts ==
    ASSUME NEW s \in Seq(Nat), NEW k
    PROVE  Live(s, k) \in Seq(Nat) /\ Len(Live(s, k)) <= Len(s)
<1>. DEFINE f == CHOOSE g : LiveUpTo(g, s, k, Len(s))
<1>1. Len(s) \in Nat
  OBVIOUS
<1>2. LiveUpTo(f, s, k, Len(s))
  BY <1>1, LiveExists
<1>3. Live(s, k) = f[Len(s)]
  BY DEF Live, LiveUpTo
<1>. HIDE DEF f
<1>4. \A i \in 0..Len(s) : f[i] = IF i = 0 THEN <<>>
                                  ELSE IF s[i] + Window[k] > now THEN Append(f[i - 1], s[i])
                                  ELSE f[i - 1]
  BY <1>2 DEF LiveUpTo
<1>. DEFINE P == {n \in Nat : n <= Len(s) => f[n] \in Seq(Nat) /\ Len(f[n]) <= n}
<1>5. 0 \in P
  <2>1. f[0] = <<>>
    BY <1>1, <1>4
  <2>2. <<>> \in Seq(Nat) /\ Len(<<>>) <= 0
    OBVIOUS
  <2>3. f[0] \in Seq(Nat) /\ Len(f[0]) <= 0
    BY <2>1, <2>2, Zenon
  <2>. QED
    BY <2>3
<1>6. ASSUME NEW n \in Nat, n \in P PROVE n + 1 \in P
  <2>. SUFFICES ASSUME n + 1 <= Len(s) PROVE f[n + 1] \in Seq(Nat) /\ Len(f[n + 1]) <= n + 1
    OBVIOUS
  <2>1. f[n] \in Seq(Nat) /\ Len(f[n]) <= n /\ n + 1 \in 0..Len(s) /\ s[n + 1] \in Nat
    BY <1>1, <1>6
  <2>2. f[n + 1] = IF s[n + 1] + Window[k] > now THEN Append(f[n], s[n + 1]) ELSE f[n]
    BY <2>1, <1>4
  <2>3. PICK g \in Seq(Nat), x \in Nat : g = f[n] /\ x = s[n + 1]
    BY <2>1
  <2>5. Append(g, x) \in Seq(Nat) /\ Len(Append(g, x)) = Len(g) + 1 /\ Len(g) \in Nat
    OBVIOUS
  <2>6. Len(g) <= n + 1 /\ Len(g) + 1 <= n + 1
    BY <2>1, <2>3, <2>5
  <2>7. f[n + 1] = IF x + Window[k] > now THEN Append(g, x) ELSE g
    BY <2>2, <2>3
  <2>. QED
    BY <2>5, <2>6, <2>7
<1>7. Nat \subseteq P
  <2>. HIDE DEF P
  <2>. QED
    BY <1>5, <1>6, SetInduction
<1>. QED
  BY <1>1, <1>3, <1>7

-----------------------------------------------------------------------------
(* Counting threads and requests *)

One(b) == IF b THEN 1 ELSE 0

\* A set of threads that gains or loses at most t.
LEMMA CardStep ==
    ASSUME NEW S, NEW R, S \subseteq Threads, R \subseteq Threads, NEW t \in Threads, S \ {t} = R \ {t}
    PROVE  /\ Cardinality(S) \in Nat /\ Cardinality(R) \in Nat
           /\ Cardinality(R) + One(t \in S) = Cardinality(S) + One(t \in R)
<1>. DEFINE Q == S \ {t}
<1>1. IsFiniteSet(S) /\ IsFiniteSet(R) /\ IsFiniteSet(Q)
  BY AccountsAssumption, FS_Subset
<1>2. Cardinality(S) \in Nat /\ Cardinality(R) \in Nat /\ Cardinality(Q) \in Nat
  BY <1>1, FS_CardinalityType
<1>3. t \notin Q
  OBVIOUS
<1>4. Cardinality(S) = Cardinality(Q) + One(t \in S)
  <2>1. CASE t \in S
    <3>1. S = Q \cup {t}
      BY <2>1
    <3>. QED
      BY <1>1, <1>2, <1>3, <2>1, <3>1, FS_AddElement DEF One
  <2>2. CASE t \notin S
    BY <1>2, <2>2 DEF One
  <2>. QED
    BY <2>1, <2>2
<1>5. Cardinality(R) = Cardinality(Q) + One(t \in R)
  <2>1. CASE t \in R
    <3>1. R = Q \cup {t}
      BY <2>1
    <3>. QED
      BY <1>1, <1>2, <1>3, <2>1, <3>1, FS_AddElement DEF One
  <2>2. CASE t \notin R
    <3>1. R = Q
      BY <2>2
    <3>. QED
      BY <1>2, <2>2, <3>1 DEF One
  <2>. QED
    BY <2>1, <2>2
<1>6. One(t \in S) \in Nat /\ One(t \in R) \in Nat
  BY DEF One
<1>. QED
  BY <1>2, <1>4, <1>5, <1>6

\* Of the times in p, those in A; of the threads at one of the places P, those
\* with a time in A.
Let(p, A) == {i \in 1..Len(p) : p[i] \in A}
Held(o, P, A) == {t \in Threads : o[t].pc \in P /\ o[t].at \in A}

Tokens(p, o, P) == [A \in SUBSET Nat |-> Cardinality(Let(p, A)) + Cardinality(Held(o, P, A))]

LEMMA LetFinite ==
    ASSUME NEW p \in Seq(Nat), NEW A
    PROVE  IsFiniteSet(Let(p, A)) /\ Cardinality(Let(p, A)) \in Nat
<1>1. IsFiniteSet(1..Len(p))
  BY FS_Interval
<1>2. IsFiniteSet(Let(p, A))
  BY <1>1, FS_Subset DEF Let
<1>. QED
  BY <1>2, FS_CardinalityType

LEMMA HeldFinite ==
    ASSUME NEW o, NEW P, NEW A
    PROVE  IsFiniteSet(Held(o, P, A)) /\ Cardinality(Held(o, P, A)) \in Nat
BY AccountsAssumption, FS_Subset, FS_CardinalityType DEF Held

LEMMA UnionCard ==
    ASSUME NEW S, NEW R, IsFiniteSet(S), IsFiniteSet(R)
    PROVE  Cardinality(S \cup R) <= Cardinality(S) + Cardinality(R)
<1>1. IsFiniteSet(S \cap R)
  BY FS_Intersection
<1>2. Cardinality(S) \in Nat /\ Cardinality(R) \in Nat /\ Cardinality(S \cap R) \in Nat
  BY <1>1, FS_CardinalityType
<1>3. Cardinality(S \cup R) = Cardinality(S) + Cardinality(R) - Cardinality(S \cap R)
  BY FS_Union
<1>. QED
  BY <1>2, <1>3

LEMMA TokensMeasure ==
    ASSUME NEW p \in Seq(Nat), NEW o, NEW P
    PROVE  Measure(Tokens(p, o, P))
<1>1. Tokens(p, o, P) \in [SUBSET Nat -> Nat]
  BY LetFinite, HeldFinite DEF Tokens
<1>2. ASSUME NEW A \in SUBSET Nat, NEW B \in SUBSET Nat, A \subseteq B
      PROVE  Tokens(p, o, P)[A] <= Tokens(p, o, P)[B]
  <2>1. Let(p, A) \subseteq Let(p, B) /\ Held(o, P, A) \subseteq Held(o, P, B)
    BY <1>2 DEF Let, Held
  <2>2. Cardinality(Let(p, A)) <= Cardinality(Let(p, B))
    BY <2>1, LetFinite, FS_Subset
  <2>3. Cardinality(Held(o, P, A)) <= Cardinality(Held(o, P, B))
    BY <2>1, HeldFinite, FS_Subset
  <2>. QED
    BY <2>2, <2>3, LetFinite, HeldFinite DEF Tokens
<1>3. ASSUME NEW A \in SUBSET Nat, NEW B \in SUBSET Nat
      PROVE  Tokens(p, o, P)[A \cup B] <= Tokens(p, o, P)[A] + Tokens(p, o, P)[B]
  <2>1. Let(p, A \cup B) = Let(p, A) \cup Let(p, B) /\ Held(o, P, A \cup B) = Held(o, P, A) \cup Held(o, P, B)
    BY DEF Let, Held
  <2>2. Cardinality(Let(p, A \cup B)) <= Cardinality(Let(p, A)) + Cardinality(Let(p, B))
    BY <2>1, LetFinite, UnionCard
  <2>3. Cardinality(Held(o, P, A \cup B)) <= Cardinality(Held(o, P, A)) + Cardinality(Held(o, P, B))
    BY <2>1, HeldFinite, UnionCard
  <2>4. A \cup B \in SUBSET Nat
    OBVIOUS
  <2>. QED
    BY <2>2, <2>3, <2>4, LetFinite, HeldFinite DEF Tokens
<1>. QED
  BY <1>1, <1>2, <1>3 DEF Measure

\* One more request is let through.
LEMMA LetMore ==
    ASSUME NEW p \in Seq(Nat), NEW x \in Nat, NEW A
    PROVE  Cardinality(Let(Append(p, x), A)) = Cardinality(Let(p, A)) + One(x \in A)
<1>. DEFINE q == Append(p, x)
            n == Len(p) + 1
<1>1. Len(p) \in Nat /\ Len(q) = n /\ q[n] = x /\ \A i \in 1..Len(p) : q[i] = p[i]
  OBVIOUS
<1>2. 1..n = 1..Len(p) \cup {n} /\ n \notin 1..Len(p)
  BY <1>1
<1>. HIDE DEF q, n
<1>3. CASE x \in A
  <2>1. Let(q, A) = Let(p, A) \cup {n} /\ n \notin Let(p, A)
    BY <1>1, <1>2, <1>3 DEF Let
  <2>. QED
    BY <2>1, <1>3, LetFinite, FS_AddElement DEF One, q
<1>4. CASE x \notin A
  <2>1. Let(q, A) = Let(p, A)
    BY <1>1, <1>2, <1>4 DEF Let
  <2>. QED
    BY <2>1, <1>4, LetFinite DEF One, q
<1>. QED
  BY <1>3, <1>4

\* One thread gets another request.
Moved(o, o2, t, r, P, A) ==
    /\ Cardinality(Held(o, P, A)) \in Nat /\ Cardinality(Held(o2, P, A)) \in Nat
    /\ Cardinality(Held(o2, P, A)) + One(t \in Held(o, P, A))
         = Cardinality(Held(o, P, A)) + One(t \in Held(o2, P, A))
    /\ t \in Held(o, P, A) <=> (o[t].pc \in P /\ o[t].at \in A)
    /\ t \in Held(o2, P, A) <=> (r.pc \in P /\ r.at \in A)

LEMMA HeldStep ==
    ASSUME NEW o, NEW t \in Threads, NEW r, NEW o2, o = [u \in Threads |-> o[u]],
           o2 = [o EXCEPT ![t] = r], NEW P, NEW A
    PROVE  Moved(o, o2, t, r, P, A)
<1>1. o2[t] = r /\ \A u \in Threads : u # t => o2[u] = o[u]
  OBVIOUS
<1>2. Held(o, P, A) \ {t} = Held(o2, P, A) \ {t}
  BY <1>1 DEF Held
<1>3. t \in Held(o, P, A) <=> (o[t].pc \in P /\ o[t].at \in A)
  BY DEF Held
<1>4. t \in Held(o2, P, A) <=> (r.pc \in P /\ r.at \in A)
  BY <1>1 DEF Held
<1>5. Held(o, P, A) \subseteq Threads /\ Held(o2, P, A) \subseteq Threads
  BY DEF Held
<1>. QED
  BY <1>2, <1>3, <1>4, <1>5, CardStep DEF Moved

-----------------------------------------------------------------------------
(* What a step does to the limiters                                        *)

Places == {"idle", "select", "write", "email", "ipStore", "ipAdd", "emailStore", "emailAdd"}

\* The limiters' part of the state.
RequestOK(o) == o.pc \in Places /\ o.at \in Nat /\ o.pruned \in Seq(Nat)

Typed ==
    /\ now \in Times /\ requests \in Nat /\ outages \in 0..MaxOutages
    /\ connected \in BOOLEAN /\ valkey \in BOOLEAN
    /\ \A t \in Threads : RequestOK(op[t])
    /\ passed \in [Limiters -> Seq(Nat)] /\ store \in [Limiters -> Seq(Nat)]
    /\ counter \in [Limiters -> [count : Nat, until : Nat]]

Extend(k) == Extended(counter[k], now, Window[k])

\* Limiter k looks at a request of thread t, which becomes r: it is refused,
\* let through, or the in-memory limiter is read.
Checked(t, r, k) ==
    /\ op' = [op EXCEPT ![t] = r] /\ RequestOK(r) /\ now' = now
    /\ UNCHANGED <<made, valkeyVars, store>>
    /\ IF connected /\ valkey THEN counter' = [counter EXCEPT ![k] = Extend(k)] ELSE UNCHANGED counter
    /\ \/ r.pc = "idle" /\ passed' = passed
       \/ /\ k = "ip" /\ r.pc \in {"email", "select"}
          /\ passed' = [passed EXCEPT ![k] = Append(passed[k], now)]
          /\ connected /\ (valkey => Extend(k).count <= Max[k])
       \/ /\ r.pc = StorePc[k] /\ r.at = now /\ Len(r.pruned) <= Len(store[k]) /\ passed' = passed
          /\ connected => k = "email" /\ (valkey => Extend(k).count <= Max[k])

\* The request of thread t, as record fields.
LEMMA FieldsSet ==
    ASSUME NEW o, Shape(o), NEW pc, NEW at, NEW pruned
    PROVE  LET r == [o EXCEPT !.pc = pc, !.at = at, !.pruned = pruned]
           IN  r.pc = pc /\ r.at = at /\ r.pruned = pruned
<1>. DEFINE a == [o EXCEPT !.pc = pc]
            b == [a EXCEPT !.at = at]
            r == [o EXCEPT !.pc = pc, !.at = at, !.pruned = pruned]
<1>1. a = [pc |-> pc, kind |-> o.kind, pw |-> o.pw, new |-> o.new,
           code |-> o.code, at |-> o.at, pruned |-> o.pruned]
  BY DEF Shape
<1>2. b = [pc |-> pc, kind |-> o.kind, pw |-> o.pw, new |-> o.new,
           code |-> o.code, at |-> at, pruned |-> o.pruned]
  <2>. HIDE DEF a
  <2>. QED
    BY <1>1
<1>3. [b EXCEPT !.pruned = pruned]
        = [pc |-> pc, kind |-> o.kind, pw |-> o.pw, new |-> o.new,
           code |-> o.code, at |-> at, pruned |-> pruned]
  <2>. HIDE DEF b
  <2>. QED
    BY <1>2
<1>4. r = [b EXCEPT !.pruned = pruned]
  OBVIOUS
<1>. QED
  BY <1>3, <1>4

LEMMA PlaceSet ==
    ASSUME NEW o, Shape(o), NEW pc
    PROVE  LET r == [o EXCEPT !.pc = pc] IN r.pc = pc /\ r.at = o.at /\ r.pruned = o.pruned
BY DEF Shape

LEMMA NoOpRequest == RequestOK(NoOp) /\ NoOp.pc = "idle"
<1>1. <<>> \in Seq(Nat)
  OBVIOUS
<1>. QED
  BY <1>1 DEF RequestOK, NoOp, Places

LEMMA CheckLimitCases ==
    ASSUME Typed, NEW t \in Threads, NEW o, Shape(o), NEW k \in Limiters, CheckLimit(t, o, k), made' = made
    PROVE  \E r : Checked(t, r, k)
<1>1. /\ now \in Nat /\ counter[k] \in [count : Nat, until : Nat] /\ passed[k] \in Seq(Nat)
      /\ store[k] \in Seq(Nat) /\ Window[k] \in Nat /\ connected \in BOOLEAN /\ valkey \in BOOLEAN
  BY AccountsAssumption DEF Typed, Times
<1>2. Extend(k) = [count |-> Count(k), until |-> now + Window[k]]
  BY <1>1 DEF Extend, Extended, Before, Count
<1>3. IF connected /\ valkey THEN counter' = [counter EXCEPT ![k] = Extend(k)] ELSE UNCHANGED counter
  BY <1>2 DEF CheckLimit, Incr
<1>4. Count(k) = Extend(k).count
  BY <1>2
<1>5. now' = now /\ UNCHANGED <<made, valkeyVars, store>>
  BY DEF CheckLimit
<1>6. CASE Finish(t) /\ UNCHANGED passed
  BY <1>3, <1>5, <1>6, NoOpRequest DEF Finish, Checked
<1>7. CASE connected /\ (valkey => Count(k) <= Max[k]) /\ k = "ip" /\ Pass(t, o, k, now)
  <2>. DEFINE pc == IF k = "ip" /\ o.kind = "request" THEN "email" ELSE "select"
              r == [o EXCEPT !.pc = pc, !.at = 0, !.pruned = <<>>]
  <2>1. op' = [op EXCEPT ![t] = r] /\ passed' = [passed EXCEPT ![k] = Append(passed[k], now)]
    BY <1>7 DEF Pass
  <2>2. pc \in {"email", "select"}
    OBVIOUS
  <2>. HIDE DEF pc
  <2>3. r.pc = pc /\ r.at = 0 /\ r.pruned = <<>>
    BY FieldsSet
  <2>. HIDE DEF r
  <2>4. RequestOK(r)
    <3>1. <<>> \in Seq(Nat)
      OBVIOUS
    <3>. QED
      BY <2>2, <2>3, <3>1 DEF RequestOK, Places
  <2>. QED
    BY <1>3, <1>4, <1>5, <1>7, <2>1, <2>2, <2>3, <2>4 DEF Checked
<1>8. CASE MemRead(t, o, k) /\ (connected => k = "email" /\ (valkey => Count(k) <= Max[k]))
  <2>. DEFINE kept == Live(store[k], k)
  <2>1. kept \in Seq(Nat) /\ Len(kept) <= Len(store[k])
    BY <1>1, LiveFacts
  <2>. HIDE DEF kept
  <2>. DEFINE r == [o EXCEPT !.pc = StorePc[k], !.at = now, !.pruned = kept]
  <2>2. op' = [op EXCEPT ![t] = r] /\ passed' = passed
    BY <1>8 DEF MemRead, kept
  <2>3. r.pc = StorePc[k] /\ r.at = now /\ r.pruned = kept
    BY FieldsSet
  <2>. HIDE DEF r
  <2>4. RequestOK(r)
    BY <1>1, <2>1, <2>3 DEF RequestOK, Places, StorePc, Limiters
  <2>. QED
    BY <1>3, <1>4, <1>5, <1>8, <2>1, <2>2, <2>3, <2>4 DEF Checked
<1>. QED
  BY <1>6, <1>7, <1>8 DEF CheckLimit, Limiters

\* Every other step of a thread: it decides or writes, ...
Decided(t, r) ==
    /\ op' = [op EXCEPT ![t] = r] /\ RequestOK(r)
    /\ op[t].pc \in {"select", "write"} /\ r.pc \in {"write", "idle"}
    /\ made' = made \/ (made' = made + 1 /\ r.pc = "idle")
    /\ UNCHANGED <<now, requests, valkeyVars, limitVars>>

\* ... stores what is left in the in-memory limiter ...
Stored(t, r, k) ==
    /\ op' = [op EXCEPT ![t] = r] /\ RequestOK(r)
    /\ op[t].pc = StorePc[k]
    /\ r.pc = "idle" \/ (r.pc = AddPc[k] /\ r.at = op[t].at)
    /\ store' = [store EXCEPT ![k] = op[t].pruned]
    /\ UNCHANGED <<now, requests, made, valkeyVars, counter, passed>>

\* ... and appends itself.
Added(t, r, k) ==
    /\ op' = [op EXCEPT ![t] = r] /\ RequestOK(r)
    /\ op[t].pc = AddPc[k] /\ r.pc \in {"email", "select"} /\ (r.pc = "email" => k = "ip")
    /\ store' = [store EXCEPT ![k] = Append(store[k], op[t].at)]
    /\ passed' = [passed EXCEPT ![k] = Append(passed[k], op[t].at)]
    /\ UNCHANGED <<now, requests, made, valkeyVars, counter>>

LEMMA SelectCases ==
    ASSUME Inv, Typed, NEW t \in Threads, Select(t)
    PROVE  \E r : Decided(t, r)
<1>1. Shape(op[t]) /\ RequestOK(op[t])
  BY DEF Inv, OpsOK, OpOK, Typed
<1>2. op[t].pc = "select" /\ UNCHANGED <<now, requests, made, valkeyVars, limitVars>>
  BY DEF Select, accountVars
<1>3. CASE op' = [op EXCEPT ![t].pc = "write"]
  <2>. DEFINE r == [op[t] EXCEPT !.pc = "write"]
  <2>1. op' = [op EXCEPT ![t] = r]
    BY <1>3
  <2>2. r.pc = "write" /\ r.at = op[t].at /\ r.pruned = op[t].pruned
    BY <1>1, PlaceSet
  <2>. HIDE DEF r
  <2>3. RequestOK(r)
    BY <1>1, <2>2 DEF RequestOK, Places
  <2>. QED
    BY <1>2, <2>1, <2>2, <2>3 DEF Decided
<1>4. CASE Finish(t)
  BY <1>2, <1>4, NoOpRequest DEF Finish, Decided
<1>. QED
  BY <1>3, <1>4 DEF Select

LEMMA WriteCases ==
    ASSUME NEW t \in Threads, NEW kind, Writes(t, kind), made' = made \/ made' = made + 1
    PROVE  Decided(t, NoOp)
BY NoOpRequest DEF Writes, Finish, Decided

LEMMA MemStoreCases ==
    ASSUME Inv, Typed, NEW t \in Threads, NEW k \in Limiters, MemStore(t, k)
    PROVE  \E r : Stored(t, r, k)
<1>1. Shape(op[t]) /\ RequestOK(op[t])
  BY DEF Inv, OpsOK, OpOK, Typed
<1>2. /\ op[t].pc = StorePc[k] /\ store' = [store EXCEPT ![k] = op[t].pruned]
      /\ UNCHANGED <<now, requests, made, valkeyVars, counter, passed>>
  BY DEF MemStore, accountVars
<1>3. CASE op' = [op EXCEPT ![t].pc = AddPc[k]]
  <2>. DEFINE r == [op[t] EXCEPT !.pc = AddPc[k]]
  <2>1. op' = [op EXCEPT ![t] = r]
    BY <1>3
  <2>2. r.pc = AddPc[k] /\ r.at = op[t].at /\ r.pruned = op[t].pruned
    BY <1>1, PlaceSet
  <2>. HIDE DEF r
  <2>3. RequestOK(r)
    BY <1>1, <2>2 DEF RequestOK, Places, AddPc, Limiters
  <2>. QED
    BY <1>2, <2>1, <2>2, <2>3 DEF Stored
<1>4. CASE Finish(t)
  BY <1>2, <1>4, NoOpRequest DEF Finish, Stored
<1>. QED
  BY <1>3, <1>4 DEF MemStore

LEMMA MemAddCases ==
    ASSUME Inv, Typed, NEW t \in Threads, NEW k \in Limiters, MemAdd(t, k)
    PROVE  \E r : Added(t, r, k)
<1>. DEFINE pc == IF k = "ip" /\ op[t].kind = "request" THEN "email" ELSE "select"
            r == [op[t] EXCEPT !.pc = pc, !.at = 0, !.pruned = <<>>]
<1>1. Shape(op[t])
  BY DEF Inv, OpsOK, OpOK
<1>2. /\ op[t].pc = AddPc[k] /\ store' = [store EXCEPT ![k] = Append(store[k], op[t].at)]
      /\ UNCHANGED <<now, requests, made, valkeyVars, counter>>
  BY DEF MemAdd, accountVars
<1>3. op' = [op EXCEPT ![t] = r] /\ passed' = [passed EXCEPT ![k] = Append(passed[k], op[t].at)]
  BY DEF MemAdd, Pass
<1>4. pc \in {"email", "select"} /\ (pc = "email" => k = "ip")
  OBVIOUS
<1>. HIDE DEF pc
<1>5. r.pc = pc /\ r.at = 0 /\ r.pruned = <<>>
  BY <1>1, FieldsSet
<1>. HIDE DEF r
<1>6. RequestOK(r)
  <2>1. <<>> \in Seq(Nat)
    OBVIOUS
  <2>. QED
    BY <1>4, <1>5, <2>1 DEF RequestOK, Places
<1>. QED
  BY <1>2, <1>3, <1>4, <1>5, <1>6 DEF Added

\* A request arrives: it goes on, or limiter "ip" looks at it.
Arrived(t, r) ==
    /\ op[t].pc = "idle" /\ requests < MaxRequests /\ requests' = requests + 1
    /\ \/ /\ op' = [op EXCEPT ![t] = r] /\ RequestOK(r) /\ r.pc = "select"
          /\ UNCHANGED <<now, made, valkeyVars, limitVars>>
       \/ Checked(t, r, "ip")

LEMMA ArriveCases ==
    ASSUME Inv, Typed, NEW t \in Threads, Arrive(t)
    PROVE  \E r : Arrived(t, r)
<1>. DEFINE Req(kind, pw, new, code) ==
       [pc |-> "select", kind |-> kind, pw |-> pw, new |-> new, code |-> code,
        at |-> 0, pruned |-> <<>>]
<1>1. PICK kind, pw, new, code :
         IF kind \in {"logout", "change"}
           THEN /\ op' = [op EXCEPT ![t] = Req(kind, pw, new, code)]
                /\ UNCHANGED <<now, accountVars, valkeyVars, limitVars>>
           ELSE CheckLimit(t, Req(kind, pw, new, code), "ip")
  BY DEF Arrive
<1>2. op[t].pc = "idle" /\ requests < MaxRequests /\ requests' = requests + 1
  BY DEF Arrive
<1>. DEFINE o == Req(kind, pw, new, code)
<1>3. Shape(o) /\ RequestOK(o) /\ o.pc = "select"
  <2>1. <<>> \in Seq(Nat)
    OBVIOUS
  <2>. QED
    BY <2>1 DEF Shape, RequestOK, Places
<1>. HIDE DEF Req, o
<1>4. CASE op' = [op EXCEPT ![t] = o] /\ UNCHANGED <<now, accountVars, valkeyVars, limitVars>>
  BY <1>2, <1>3, <1>4 DEF Arrived, accountVars
<1>5. CASE CheckLimit(t, o, "ip")
  <2>1. made' = made
    BY <1>5 DEF CheckLimit, accountVars
  <2>2. "ip" \in Limiters
    BY DEF Limiters
  <2>3. \E r : Checked(t, r, "ip")
    BY <1>3, <1>5, <2>1, <2>2, CheckLimitCases
  <2>. QED
    BY <1>2, <2>3 DEF Arrived
<1>. QED
  BY <1>1, <1>4, <1>5 DEF o

\* The second limiter looks at a reset.
EmailChecked(t, r) == op[t].pc = "email" /\ Checked(t, r, "email") /\ UNCHANGED requests

LEMMA CheckEmailCases ==
    ASSUME Inv, Typed, NEW t \in Threads, CheckEmail(t)
    PROVE  \E r : EmailChecked(t, r)
<1>1. Shape(op[t]) /\ "email" \in Limiters
  BY DEF Inv, OpsOK, OpOK, Limiters
<1>2. CheckLimit(t, op[t], "email") /\ made' = made /\ UNCHANGED requests /\ op[t].pc = "email"
  BY DEF CheckEmail, CheckLimit, accountVars
<1>3. \E r : Checked(t, r, "email")
  BY <1>1, <1>2, CheckLimitCases
<1>. QED
  BY <1>2, <1>3 DEF EmailChecked

\* Time passes, Valkey stops or answers again, or nothing happens.
Outside ==
    /\ UNCHANGED <<requests, op, made, limitVars, connected>> /\ now' \in {now, now + 1} /\ now' \in Times
    /\ \/ UNCHANGED <<valkey, outages>>
       \/ /\ connected /\ valkey' \in BOOLEAN
          /\ \/ outages' = outages + 1 /\ outages < MaxOutages
             \/ ~valkey /\ outages' = outages

\* The step of thread t that makes its request r.
ThreadStep(t, r) ==
    \/ Arrived(t, r) \/ EmailChecked(t, r) \/ Decided(t, r)
    \/ \E k \in Limiters : Stored(t, r, k) \/ Added(t, r, k)

LEMMA StepCases ==
    ASSUME Inv, Typed, [Next]_vars
    PROVE  Outside \/ \E t \in Threads : \E r : ThreadStep(t, r)
<1>1. CASE Tick \/ Outage \/ UNCHANGED vars
  <2>1. CASE Tick
    <3>1. now \in Nat /\ MaxTime \in Nat /\ now < MaxTime
      BY <2>1, AccountsAssumption DEF Tick, Typed, Times
    <3>2. now + 1 \in Times
      BY <3>1 DEF Times
    <3>. QED
      BY <2>1, <3>2 DEF Tick, Outside, accountVars, valkeyVars
  <2>2. CASE Outage
    BY <2>2 DEF Outage, Outside, accountVars, Typed
  <2>3. CASE UNCHANGED vars
    BY <2>3 DEF vars, Outside, Typed, limitVars
  <2>. QED
    BY <1>1, <2>1, <2>2, <2>3
<1>2. ASSUME NEW t \in Threads, NEW k \in Limiters, MemStore(t, k) \/ MemAdd(t, k)
      PROVE  \E r : ThreadStep(t, r)
  <2>1. CASE MemStore(t, k)
    <3>1. PICK r : Stored(t, r, k)
      BY <2>1, MemStoreCases
    <3>. QED
      BY <3>1 DEF ThreadStep
  <2>2. CASE MemAdd(t, k)
    <3>1. PICK r : Added(t, r, k)
      BY <2>2, MemAddCases
    <3>. QED
      BY <3>1 DEF ThreadStep
  <2>. QED
    BY <1>2, <2>1, <2>2
<1>3. ASSUME NEW t \in Threads, NEW kind, Writes(t, kind), made' = made \/ made' = made + 1
      PROVE  \E r : ThreadStep(t, r)
  BY <1>3, WriteCases DEF ThreadStep
<1>4. ASSUME NEW t \in Threads,
             Insert(t) \/ Verify(t) \/ Resend(t) \/ Log(t) \/ Change(t) \/ RequestReset(t) \/ Reset(t)
      PROVE  \E r : ThreadStep(t, r)
  <2>1. (\E kind : Writes(t, kind)) /\ (made' = made \/ made' = made + 1)
    BY <1>4 DEF Insert, Verify, Resend, Log, Change, RequestReset, Reset, MakeCode
  <2>. QED
    BY <2>1, <1>3
<1>5. ASSUME NEW t \in Threads, Arrive(t) \/ CheckEmail(t) \/ Select(t)
      PROVE  \E r : ThreadStep(t, r)
  BY <1>5, ArriveCases, CheckEmailCases, SelectCases DEF ThreadStep
<1>. QED
  BY <1>1, <1>2, <1>4, <1>5 DEF Next

\* The request of the other threads stay.
LEMMA RequestsStep ==
    ASSUME OpsOK, Typed, NEW t \in Threads, NEW r, op' = [op EXCEPT ![t] = r], RequestOK(r)
    PROVE  \A u \in Threads : RequestOK(op'[u])
<1>1. op' = [u \in Threads |-> IF u = t THEN r ELSE op[u]]
  BY DEF OpsOK
<1>. QED
  BY <1>1 DEF Typed

LEMMA ExtendTyped ==
    ASSUME Typed, NEW k \in Limiters
    PROVE  /\ Extend(k) \in [count : Nat, until : Nat]
           /\ Extend(k).count = Before(counter[k], now) + 1
           /\ Extend(k).count <= counter[k].count + 1
<1>1. counter[k] \in [count : Nat, until : Nat] /\ now \in Nat /\ Window[k] \in Nat
  BY AccountsAssumption DEF Typed, Times
<1>. QED
  BY <1>1 DEF Extend, Extended, Before

LEMMA CheckedTyped ==
    ASSUME OpsOK, Typed, NEW t \in Threads, NEW r, NEW k \in Limiters, Checked(t, r, k), requests' \in Nat
    PROVE  Typed'
<1>1. \A u \in Threads : RequestOK(op'[u])
  BY RequestsStep DEF Checked
<1>2. counter' \in [Limiters -> [count : Nat, until : Nat]]
  BY ExtendTyped DEF Checked, Typed
<1>3. passed' \in [Limiters -> Seq(Nat)]
  <2>1. now \in Nat /\ passed[k] \in Seq(Nat)
    BY DEF Typed, Times
  <2>2. Append(passed[k], now) \in Seq(Nat)
    BY <2>1
  <2>3. passed' = passed \/ passed' = [passed EXCEPT ![k] = Append(passed[k], now)]
    BY DEF Checked
  <2>. QED
    BY <2>2, <2>3 DEF Typed
<1>. QED
  BY <1>1, <1>2, <1>3 DEF Typed, RequestOK, Checked, valkeyVars

LEMMA ThreadTyped ==
    ASSUME OpsOK, Typed, NEW t \in Threads, NEW r, ThreadStep(t, r)
    PROVE  Typed'
<1>1. CASE Arrived(t, r)
  <2>1. requests' \in Nat
    BY <1>1 DEF Arrived, Typed
  <2>2. CASE Checked(t, r, "ip")
    BY <2>1, <2>2, CheckedTyped DEF Limiters
  <2>3. CASE op' = [op EXCEPT ![t] = r] /\ RequestOK(r) /\ UNCHANGED <<now, made, valkeyVars, limitVars>>
    <3>1. \A u \in Threads : RequestOK(op'[u])
      BY <2>3, RequestsStep
    <3>. QED
      BY <2>1, <2>3, <3>1 DEF Typed, RequestOK, valkeyVars, limitVars
  <2>. QED
    BY <1>1, <2>2, <2>3 DEF Arrived
<1>2. CASE EmailChecked(t, r)
  BY <1>2, CheckedTyped DEF EmailChecked, Limiters, Typed
<1>3. CASE Decided(t, r)
  <2>1. \A u \in Threads : RequestOK(op'[u])
    BY <1>3, RequestsStep DEF Decided
  <2>. QED
    BY <1>3, <2>1 DEF Decided, Typed, RequestOK, valkeyVars, limitVars
<1>4. ASSUME NEW k \in Limiters, Stored(t, r, k) PROVE Typed'
  <2>1. \A u \in Threads : RequestOK(op'[u])
    BY <1>4, RequestsStep DEF Stored
  <2>2. store' \in [Limiters -> Seq(Nat)]
    BY <1>4 DEF Stored, Typed, RequestOK
  <2>. QED
    BY <1>4, <2>1, <2>2 DEF Stored, Typed, RequestOK, valkeyVars
<1>5. ASSUME NEW k \in Limiters, Added(t, r, k) PROVE Typed'
  <2>1. \A u \in Threads : RequestOK(op'[u])
    BY <1>5, RequestsStep DEF Added
  <2>2. Append(store[k], op[t].at) \in Seq(Nat) /\ Append(passed[k], op[t].at) \in Seq(Nat)
    <3>1. store[k] \in Seq(Nat) /\ passed[k] \in Seq(Nat) /\ op[t].at \in Nat
      BY DEF Typed, RequestOK
    <3>. QED
      BY <3>1
  <2>3. store' \in [Limiters -> Seq(Nat)] /\ passed' \in [Limiters -> Seq(Nat)]
    BY <1>5, <2>2 DEF Added, Typed
  <2>. QED
    BY <1>5, <2>1, <2>3 DEF Added, Typed, RequestOK, valkeyVars
<1>. QED
  BY <1>1, <1>2, <1>3, <1>4, <1>5 DEF ThreadStep

LEMMA OutsideTyped ==
    ASSUME Typed, Outside
    PROVE  Typed'
<1>1. MaxOutages \in Nat
  BY AccountsAssumption
<1>2. outages' \in 0..MaxOutages
  BY <1>1 DEF Outside, Typed
<1>. QED
  BY <1>2 DEF Typed, Outside, RequestOK, limitVars

-----------------------------------------------------------------------------
(* Every request is counted once                                           *)

Ahead == [ip |-> {"ipStore", "ipAdd"}, email |-> {"ipStore", "ipAdd", "email", "emailStore", "emailAdd"}]
Uncounted == [ip |-> {}, email |-> {"ipStore", "ipAdd", "email"}]
Busy == Places \ {"idle"}

\* The threads at the places P.
At(o, P) == Cardinality({t \in Threads : o[t].pc \in P})

\* What the limiters have seen, with the requests that may still come to them,
\* and the codes, with the requests that may still make one, are no more than
\* the requests; the in-memory limiter holds no time that was not let through,
\* whichever of its threads stores an old list.
Counted ==
    /\ requests <= MaxRequests
    /\ \A k \in Limiters : /\ Len(passed[k]) + At(op, Ahead[k]) <= requests
                           /\ counter[k].count + At(op, Uncounted[k]) <= requests
                           /\ Len(store[k]) <= Len(passed[k])
                           /\ \A t \in Threads : op[t].pc = StorePc[k] => Len(op[t].pruned) <= Len(passed[k])
    /\ made + At(op, Busy) <= requests

LEMMA AtStep ==
    ASSUME NEW o, NEW t \in Threads, NEW r, NEW o2, o = [u \in Threads |-> o[u]],
           o2 = [o EXCEPT ![t] = r], NEW P
    PROVE  /\ At(o, P) \in Nat /\ At(o2, P) \in Nat
           /\ At(o2, P) + One(o[t].pc \in P) = At(o, P) + One(r.pc \in P)
<1>. DEFINE S == {u \in Threads : o[u].pc \in P}
            R == {u \in Threads : o2[u].pc \in P}
<1>1. o2[t] = r /\ \A u \in Threads : u # t => o2[u] = o[u]
  OBVIOUS
<1>2. S \ {t} = R \ {t} /\ (t \in S <=> o[t].pc \in P) /\ (t \in R <=> r.pc \in P)
  BY <1>1
<1>3. S \subseteq Threads /\ R \subseteq Threads
  OBVIOUS
<1>4. At(o, P) = Cardinality(S) /\ At(o2, P) = Cardinality(R)
  BY DEF At
<1>. HIDE DEF S, R
<1>. QED
  BY <1>2, <1>3, <1>4, CardStep DEF One

\* A share of the requests, and the threads that may add to it: it stays
\* within them when a request adds to it only by leaving those threads, or by
\* arriving.
LEMMA Budget ==
    ASSUME OpsOK, NEW t \in Threads, NEW r, op' = [op EXCEPT ![t] = r],
           NEW P, NEW n \in Nat, NEW m \in Nat, NEW q \in Nat, NEW p \in Nat,
           n + At(op, P) <= q, m + One(r.pc \in P) + q <= n + One(op[t].pc \in P) + p
    PROVE  m + At(op', P) <= p
<1>1. /\ At(op, P) \in Nat /\ At(op', P) \in Nat
      /\ At(op', P) + One(op[t].pc \in P) = At(op, P) + One(r.pc \in P)
  BY AtStep DEF OpsOK
<1>2. One(op[t].pc \in P) \in Nat /\ One(r.pc \in P) \in Nat
  BY DEF One
<1>. QED
  BY <1>1, <1>2

\* The numbers Counted is about.
Numbers(k) ==
           /\ Len(passed[k]) \in Nat /\ Len(store[k]) \in Nat /\ counter[k].count \in Nat
           /\ requests \in Nat /\ MaxRequests \in Nat
           /\ \A t \in Threads : Len(op[t].pruned) \in Nat

LEMMA NumbersTyped ==
    ASSUME NEW k \in Limiters
    PROVE  (Typed => Numbers(k)) /\ (Typed' => Numbers(k)')
<1>1. ASSUME Typed PROVE Numbers(k)
  <2>1. passed[k] \in Seq(Nat) /\ store[k] \in Seq(Nat) /\ \A t \in Threads : op[t].pruned \in Seq(Nat)
    BY <1>1 DEF Typed, RequestOK
  <2>. QED
    BY <1>1, <2>1, AccountsAssumption DEF Typed, Numbers
<1>2. ASSUME Typed' PROVE Numbers(k)'
  <2>1. passed'[k] \in Seq(Nat) /\ store'[k] \in Seq(Nat) /\ \A t \in Threads : op'[t].pruned \in Seq(Nat)
    BY <1>2 DEF Typed, RequestOK
  <2>. QED
    BY <1>2, <2>1, AccountsAssumption DEF Typed, Numbers
<1>. QED
  BY <1>1, <1>2

\* A step of a thread keeps to the budgets when its request does.
LEMMA BudgetStep ==
    ASSUME Inv, Typed, Typed', Counted, made' \in Nat, NEW t \in Threads, NEW r, op' = [op EXCEPT ![t] = r],
           requests' <= MaxRequests,
           \A k \in Limiters :
              /\ Len(passed'[k]) + One(r.pc \in Ahead[k]) + requests
                   <= Len(passed[k]) + One(op[t].pc \in Ahead[k]) + requests'
              /\ counter'[k].count + One(r.pc \in Uncounted[k]) + requests
                   <= counter[k].count + One(op[t].pc \in Uncounted[k]) + requests'
              /\ Len(passed[k]) <= Len(passed'[k])
              /\ Len(store'[k]) <= Len(passed'[k])
              /\ r.pc = StorePc[k] => Len(r.pruned) <= Len(passed[k]),
           made' + One(r.pc \in Busy) + requests <= made + One(op[t].pc \in Busy) + requests'
    PROVE  Counted'
<1>1. OpsOK /\ made \in Nat /\ requests \in Nat /\ requests' \in Nat
  BY DEF Inv, Typed
<1>2. ASSUME NEW k \in Limiters
      PROVE  /\ Len(passed'[k]) + At(op', Ahead[k]) <= requests'
             /\ counter'[k].count + At(op', Uncounted[k]) <= requests'
  <2>1. /\ Len(passed[k]) \in Nat /\ counter[k].count \in Nat
        /\ Len(passed'[k]) \in Nat /\ counter'[k].count \in Nat
    BY NumbersTyped DEF Numbers
  <2>2. Len(passed[k]) + At(op, Ahead[k]) <= requests /\ counter[k].count + At(op, Uncounted[k]) <= requests
    BY DEF Counted
  <2>3. Len(passed'[k]) + At(op', Ahead[k]) <= requests'
    BY <1>1, <2>1, <2>2, Budget
  <2>4. counter'[k].count + At(op', Uncounted[k]) <= requests'
    BY <1>1, <2>1, <2>2, Budget
  <2>. QED
    BY <2>3, <2>4
<1>3. made' + At(op', Busy) <= requests'
  <2>1. made + At(op, Busy) <= requests
    BY DEF Counted
  <2>. QED
    BY <1>1, <2>1, Budget
<1>4. ASSUME NEW k \in Limiters, NEW u \in Threads, op'[u].pc = StorePc[k]
      PROVE  Len(op'[u].pruned) <= Len(passed'[k])
  <2>1. /\ Len(passed[k]) \in Nat /\ Len(passed'[k]) \in Nat /\ Len(op'[u].pruned) \in Nat
        /\ Len(passed[k]) <= Len(passed'[k])
    BY NumbersTyped DEF Numbers
  <2>2. Len(op'[u].pruned) <= Len(passed[k])
    <3>1. op' = [v \in Threads |-> IF v = t THEN r ELSE op[v]]
      BY <1>1 DEF OpsOK
    <3>. QED
      BY <1>4, <3>1 DEF Counted
  <2>. QED
    BY <2>1, <2>2
<1>. QED
  BY <1>2, <1>3, <1>4 DEF Counted

\* Limiter k lets a request through, the other does not.
LEMMA PassedMore ==
    ASSUME Typed, NEW k \in Limiters, NEW x \in Nat
    PROVE  LET p == [passed EXCEPT ![k] = Append(passed[k], x)]
           IN  \A j \in Limiters : Len(p[j]) = Len(passed[j]) + One(j = k)
<1>. DEFINE p == [passed EXCEPT ![k] = Append(passed[k], x)]
<1>1. \A j \in Limiters : passed[j] \in Seq(Nat) /\ Len(passed[j]) \in Nat
  BY DEF Typed
<1>2. p[k] = Append(passed[k], x) /\ \A j \in Limiters : j # k => p[j] = passed[j]
  BY DEF Typed
<1>3. Len(p[k]) = Len(passed[k]) + 1
  BY <1>1, <1>2
<1>4. ASSUME NEW j \in Limiters PROVE Len(p[j]) = Len(passed[j]) + One(j = k)
  <2>1. CASE j = k
    BY <1>3, <2>1 DEF One
  <2>2. CASE j # k
    BY <1>1, <1>2, <2>2 DEF One
  <2>. QED
    BY <2>1, <2>2
<1>. QED
  BY <1>4

\* INCR counts a request once, for its own limiter.
LEMMA CounterMore ==
    ASSUME Typed, NEW k \in Limiters, NEW t, NEW r, Checked(t, r, k)
    PROVE  \A j \in Limiters : counter'[j].count <= counter[j].count + One(j = k)
<1>. SUFFICES ASSUME NEW j \in Limiters PROVE counter'[j].count <= counter[j].count + One(j = k)
  OBVIOUS
<1>1. counter[j].count \in Nat
  BY NumbersTyped DEF Numbers
<1>2. CASE UNCHANGED counter
  BY <1>1, <1>2 DEF One
<1>3. CASE counter' = [counter EXCEPT ![k] = Extend(k)]
  <2>1. CASE j = k
    <3>1. counter'[j] = Extend(k)
      BY <1>3, <2>1 DEF Typed
    <3>. QED
      BY <2>1, <3>1, ExtendTyped DEF One
  <2>2. CASE j # k
    <3>1. counter'[j] = counter[j]
      BY <1>3, <2>2 DEF Typed
    <3>. QED
      BY <1>1, <2>2, <3>1 DEF One
  <2>. QED
    BY <2>1, <2>2
<1>. QED
  BY <1>2, <1>3 DEF Checked

LEMMA Shift ==
    ASSUME NEW n \in Nat, NEW m \in Nat, NEW x \in Nat, NEW a \in Nat, NEW b \in Nat, NEW q \in Nat, NEW p \in Nat,
           m <= n + x, x + a + q <= b + p
    PROVE  m + a + q <= n + b + p
OBVIOUS

\* What a request of limiter k costs that goes from a to b, when the requests
\* go from q to p.
Within(a, b, k, q, p) ==
    /\ One(b \in Busy) + q <= One(a \in Busy) + p
    /\ \A j \in Limiters :
          /\ One(b \in Ahead[j]) + q <= One(a \in Ahead[j]) + p
          /\ b \in {"email", "select"} => One(j = k) + One(b \in Ahead[j]) + q <= One(a \in Ahead[j]) + p
          /\ One(j = k) + One(b \in Uncounted[j]) + q <= One(a \in Uncounted[j]) + p

LEMMA CheckedCosts ==
    ASSUME NEW a, NEW b, NEW k \in Limiters, NEW q \in Nat, NEW p,
           b \in {"idle", "email", "select"} \/ b = StorePc[k],
           b \in {"email", "select"} => k = "ip",
           \/ k = "ip" /\ a = "idle" /\ p = q + 1
           \/ k = "email" /\ a = "email" /\ p = q
    PROVE  Within(a, b, k, q, p)
<1>1. CASE k = "ip"
  <2>1. a = "idle" /\ p = q + 1 /\ b \in {"idle", "email", "select", "ipStore"}
    BY <1>1 DEF StorePc
  <2>2. \A S \in {Ahead["ip"], Ahead["email"], Uncounted["ip"], Uncounted["email"], Busy} : One(a \in S) = 0
    BY <2>1 DEF One, Ahead, Uncounted, Busy
  <2>3. \A S \in {Ahead["ip"], Ahead["email"], Uncounted["ip"], Uncounted["email"], Busy} :
           One(b \in S) \in Nat /\ One(b \in S) <= 1
    BY DEF One
  <2>4. One(b \in Uncounted["ip"]) = 0 /\ (b \in {"email", "select"} => One(b \in Ahead["ip"]) = 0)
    BY <2>1 DEF One, Uncounted, Ahead
  <2>5. One("ip" = k) = 1 /\ One("email" = k) = 0
    BY <1>1 DEF One
  <2>6. One(b \in Busy) + q <= One(a \in Busy) + p
    BY <2>1, <2>2, <2>3
  <2>7. ASSUME NEW j \in Limiters
        PROVE  /\ One(b \in Ahead[j]) + q <= One(a \in Ahead[j]) + p
               /\ b \in {"email", "select"} => One(j = k) + One(b \in Ahead[j]) + q <= One(a \in Ahead[j]) + p
               /\ One(j = k) + One(b \in Uncounted[j]) + q <= One(a \in Uncounted[j]) + p
    <3>1. CASE j = "ip"
      BY <2>1, <2>2, <2>3, <2>4, <2>5, <3>1
    <3>2. CASE j = "email"
      BY <2>1, <2>2, <2>3, <2>5, <3>2
    <3>. QED
      BY <3>1, <3>2 DEF Limiters
  <2>. QED
    BY <2>6, <2>7 DEF Within
<1>2. CASE k = "email"
  <2>1. a = "email" /\ p = q /\ b \in {"idle", "emailStore"}
    BY <1>2 DEF StorePc
  <2>2. /\ One(a \in Busy) = 1 /\ One(a \in Ahead["ip"]) = 0 /\ One(a \in Ahead["email"]) = 1
        /\ One(a \in Uncounted["ip"]) = 0 /\ One(a \in Uncounted["email"]) = 1
    BY <2>1 DEF One, Ahead, Uncounted, Busy, Places
  <2>3. /\ One(b \in Busy) \in {0, 1} /\ One(b \in Ahead["email"]) \in {0, 1} /\ One(b \in Ahead["ip"]) = 0
        /\ One(b \in Uncounted["ip"]) = 0 /\ One(b \in Uncounted["email"]) = 0
    BY <2>1 DEF One, Ahead, Uncounted
  <2>4. One("ip" = k) = 0 /\ One("email" = k) = 1 /\ b \notin {"email", "select"}
    BY <1>2, <2>1 DEF One
  <2>5. One(b \in Busy) + q <= One(a \in Busy) + p
    BY <2>1, <2>2, <2>3
  <2>6. ASSUME NEW j \in Limiters
        PROVE  /\ One(b \in Ahead[j]) + q <= One(a \in Ahead[j]) + p
               /\ One(j = k) + One(b \in Uncounted[j]) + q <= One(a \in Uncounted[j]) + p
    <3>1. CASE j = "ip"
      BY <2>1, <2>2, <2>3, <2>4, <3>1
    <3>2. CASE j = "email"
      BY <2>1, <2>2, <2>3, <2>4, <3>2
    <3>. QED
      BY <3>1, <3>2 DEF Limiters
  <2>. QED
    BY <2>4, <2>5, <2>6 DEF Within
<1>. QED
  BY <1>1, <1>2 DEF Limiters

\* A limiter has looked at the request of thread t.
LEMMA CheckedCounted ==
    ASSUME Inv, Typed, Typed', Counted, NEW t \in Threads, NEW r, NEW k \in Limiters, Checked(t, r, k),
           requests' <= MaxRequests,
           \/ k = "ip" /\ op[t].pc = "idle" /\ requests' = requests + 1
           \/ k = "email" /\ op[t].pc = "email" /\ requests' = requests
    PROVE  Counted'
<1>1. made \in Nat /\ made' = made /\ requests \in Nat /\ op' = [op EXCEPT ![t] = r] /\ store' = store
  BY DEF Inv, Typed, Checked
<1>2. /\ r.pc \in {"idle", "email", "select"} \/ r.pc = StorePc[k]
      /\ r.pc \in {"email", "select"} => k = "ip"
      /\ r.pc = StorePc[k] => Len(r.pruned) <= Len(store[k])
  BY DEF Checked, StorePc, Limiters
<1>7. Within(op[t].pc, r.pc, k, requests, requests')
  BY <1>1, <1>2, CheckedCosts
<1>8. /\ requests' \in Nat /\ One(r.pc \in Busy) \in Nat /\ One(op[t].pc \in Busy) \in Nat
      /\ \A j \in Limiters :
            /\ One(j = k) \in Nat /\ One(r.pc \in Ahead[j]) \in Nat /\ One(op[t].pc \in Ahead[j]) \in Nat
            /\ One(r.pc \in Uncounted[j]) \in Nat /\ One(op[t].pc \in Uncounted[j]) \in Nat
  BY <1>1 DEF One
<1>3. made' + One(r.pc \in Busy) + requests <= made + One(op[t].pc \in Busy) + requests'
  <2>1. One(r.pc \in Busy) \in Nat /\ One(op[t].pc \in Busy) \in Nat /\ requests' \in Nat
    BY <1>8
  <2>2. One(r.pc \in Busy) + requests <= One(op[t].pc \in Busy) + requests'
    BY <1>7 DEF Within
  <2>3. made' <= made + 0 /\ 0 + One(r.pc \in Busy) + requests <= One(op[t].pc \in Busy) + requests'
    BY <1>1, <2>1, <2>2
  <2>. QED
    BY <1>1, <2>1, <2>3, Shift
<1>4. ASSUME NEW j \in Limiters
      PROVE  /\ Len(passed[j]) <= Len(passed'[j])
             /\ Len(passed'[j]) + One(r.pc \in Ahead[j]) + requests
                  <= Len(passed[j]) + One(op[t].pc \in Ahead[j]) + requests'
  <2>1. Len(passed[j]) \in Nat /\ Len(passed'[j]) \in Nat
    BY NumbersTyped DEF Numbers
  <2>4. /\ One(j = k) \in Nat /\ One(r.pc \in Ahead[j]) \in Nat /\ One(op[t].pc \in Ahead[j]) \in Nat
        /\ requests' \in Nat
    BY <1>8
  <2>2. CASE passed' = passed
    <3>1. passed'[j] = passed[j]
      BY <2>2
    <3>. QED
      <4>1. 0 + One(r.pc \in Ahead[j]) + requests <= One(op[t].pc \in Ahead[j]) + requests'
        BY <1>1, <1>7, <2>4 DEF Within
      <4>2. Len(passed'[j]) <= Len(passed[j]) + 0 /\ Len(passed[j]) <= Len(passed'[j])
        BY <2>1, <3>1
      <4>. QED
        BY <1>1, <2>1, <2>4, <4>1, <4>2, Shift
  <2>3. CASE k = "ip" /\ r.pc \in {"email", "select"} /\ passed' = [passed EXCEPT ![k] = Append(passed[k], now)]
    <3>1. now \in Nat
      BY DEF Typed, Times
    <3>2. Len(passed'[j]) = Len(passed[j]) + One(j = k)
      BY <2>3, <3>1, PassedMore
    <3>. QED
      <4>1. One(j = k) + One(r.pc \in Ahead[j]) + requests <= One(op[t].pc \in Ahead[j]) + requests'
        BY <1>7, <2>3 DEF Within
      <4>2. Len(passed'[j]) <= Len(passed[j]) + One(j = k) /\ Len(passed[j]) <= Len(passed'[j])
        BY <2>1, <2>4, <3>2
      <4>. QED
        BY <1>1, <2>1, <2>4, <4>1, <4>2, Shift
  <2>. QED
    BY <2>2, <2>3 DEF Checked
<1>5. ASSUME NEW j \in Limiters
      PROVE  counter'[j].count + One(r.pc \in Uncounted[j]) + requests
               <= counter[j].count + One(op[t].pc \in Uncounted[j]) + requests'
  <2>1. counter[j].count \in Nat /\ counter'[j].count \in Nat
    BY NumbersTyped DEF Numbers
  <2>2. counter'[j].count <= counter[j].count + One(j = k)
    BY CounterMore
  <2>. QED
    <3>1. /\ One(j = k) \in Nat /\ One(r.pc \in Uncounted[j]) \in Nat /\ One(op[t].pc \in Uncounted[j]) \in Nat
          /\ requests' \in Nat
      BY <1>8
    <3>2. One(j = k) + One(r.pc \in Uncounted[j]) + requests <= One(op[t].pc \in Uncounted[j]) + requests'
      BY <1>7 DEF Within
    <3>. QED
      BY <1>1, <2>1, <2>2, <3>1, <3>2, Shift
<1>6. ASSUME NEW j \in Limiters
      PROVE  Len(store'[j]) <= Len(passed'[j]) /\ (r.pc = StorePc[j] => Len(r.pruned) <= Len(passed[j]))
  <2>1. /\ Len(store[j]) \in Nat /\ Len(passed[j]) \in Nat /\ Len(passed'[j]) \in Nat
        /\ Len(store[j]) <= Len(passed[j]) /\ Len(passed[j]) <= Len(passed'[j])
    BY <1>4, NumbersTyped DEF Numbers, Counted
  <2>2. ASSUME r.pc = StorePc[j] PROVE Len(r.pruned) <= Len(passed[j])
    <3>1. j = k
      BY <1>2, <2>2 DEF StorePc, Limiters
    <3>2. r \in {r} /\ Len(r.pruned) \in Nat
      BY DEF Checked, RequestOK
    <3>. QED
      BY <1>2, <2>1, <2>2, <3>1, <3>2
  <2>. QED
    BY <1>1, <2>1, <2>2
<1>. QED
  BY <1>1, <1>3, <1>4, <1>5, <1>6, BudgetStep

LEMMA StoredCounted ==
    ASSUME Inv, Typed, Typed', Counted, NEW t \in Threads, NEW r, NEW k \in Limiters, Stored(t, r, k)
    PROVE  Counted'
<1>1. /\ made \in Nat /\ made' = made /\ requests \in Nat /\ requests' = requests
      /\ requests <= MaxRequests /\ op' = [op EXCEPT ![t] = r]
      /\ passed' = passed /\ counter' = counter /\ store' = [store EXCEPT ![k] = op[t].pruned]
      /\ op[t].pc = StorePc[k] /\ r.pc \in {"idle", AddPc[k]}
  BY DEF Inv, Typed, Stored, Counted
<1>2. made' + One(r.pc \in Busy) + requests <= made + One(op[t].pc \in Busy) + requests'
  BY <1>1 DEF One, Busy, Places, StorePc, Limiters
<1>3. ASSUME NEW j \in Limiters
      PROVE  /\ Len(passed'[j]) + One(r.pc \in Ahead[j]) + requests
                  <= Len(passed[j]) + One(op[t].pc \in Ahead[j]) + requests'
             /\ counter'[j].count + One(r.pc \in Uncounted[j]) + requests
                  <= counter[j].count + One(op[t].pc \in Uncounted[j]) + requests'
             /\ Len(passed[j]) <= Len(passed'[j])
  <2>1. Len(passed[j]) \in Nat /\ counter[j].count \in Nat
    BY NumbersTyped DEF Numbers
  <2>2. passed'[j] = passed[j] /\ counter'[j] = counter[j] /\ requests' = requests
    BY <1>1
  <2>3. /\ One(r.pc \in Ahead[j]) \in Nat /\ One(op[t].pc \in Ahead[j]) \in Nat
        /\ One(r.pc \in Ahead[j]) <= One(op[t].pc \in Ahead[j])
    BY <1>1 DEF One, Ahead, StorePc, AddPc, Limiters
  <2>4. /\ One(r.pc \in Uncounted[j]) \in Nat /\ One(op[t].pc \in Uncounted[j]) \in Nat
        /\ One(r.pc \in Uncounted[j]) <= One(op[t].pc \in Uncounted[j])
    BY <1>1 DEF One, Uncounted, StorePc, AddPc, Limiters
  <2>5. Len(passed'[j]) <= Len(passed[j]) + 0 /\ counter'[j].count <= counter[j].count + 0
    BY <2>1, <2>2
  <2>6. /\ 0 + One(r.pc \in Ahead[j]) + requests <= One(op[t].pc \in Ahead[j]) + requests'
        /\ 0 + One(r.pc \in Uncounted[j]) + requests <= One(op[t].pc \in Uncounted[j]) + requests'
    BY <1>1, <2>2, <2>3, <2>4
  <2>7. Len(passed'[j]) \in Nat /\ counter'[j].count \in Nat /\ requests' \in Nat
    BY <1>1, <2>1, <2>2
  <2>8. Len(passed'[j]) + One(r.pc \in Ahead[j]) + requests <= Len(passed[j]) + One(op[t].pc \in Ahead[j]) + requests'
    BY <1>1, <2>1, <2>3, <2>5, <2>6, <2>7, Shift
  <2>9. counter'[j].count + One(r.pc \in Uncounted[j]) + requests
          <= counter[j].count + One(op[t].pc \in Uncounted[j]) + requests'
    BY <1>1, <2>1, <2>4, <2>5, <2>6, <2>7, Shift
  <2>. QED
    BY <2>1, <2>2, <2>8, <2>9
<1>4. ASSUME NEW j \in Limiters PROVE Len(store'[j]) <= Len(passed'[j])
  <2>1. store'[j] = IF j = k THEN op[t].pruned ELSE store[j]
    BY <1>1 DEF Typed
  <2>. QED
    BY <1>1, <2>1 DEF Counted
<1>5. \A j \in Limiters : r.pc # StorePc[j]
  BY <1>1 DEF StorePc, AddPc, Limiters
<1>6. \A j \in Limiters : r.pc = StorePc[j] => Len(r.pruned) <= Len(passed[j])
  BY <1>5
<1>7. made' \in Nat /\ requests' <= MaxRequests
  BY <1>1
<1>. QED
  BY <1>1, <1>2, <1>3, <1>4, <1>6, <1>7, BudgetStep

LEMMA AddedCounted ==
    ASSUME Inv, Typed, Typed', Counted, NEW t \in Threads, NEW r, NEW k \in Limiters, Added(t, r, k)
    PROVE  Counted'
<1>1. /\ made \in Nat /\ made' = made /\ requests \in Nat /\ requests' = requests
      /\ requests <= MaxRequests /\ op' = [op EXCEPT ![t] = r]
      /\ counter' = counter /\ store' = [store EXCEPT ![k] = Append(store[k], op[t].at)]
      /\ passed' = [passed EXCEPT ![k] = Append(passed[k], op[t].at)]
      /\ op[t].pc = AddPc[k] /\ r.pc \in {"email", "select"} /\ (r.pc = "email" => k = "ip")
      /\ op[t].at \in Nat
  BY DEF Inv, Typed, Added, Counted, RequestOK
<1>2. made' + One(r.pc \in Busy) + requests <= made + One(op[t].pc \in Busy) + requests'
  BY <1>1 DEF One, Busy, Places, AddPc, Limiters
<1>3. ASSUME NEW j \in Limiters
      PROVE  /\ Len(passed'[j]) + One(r.pc \in Ahead[j]) + requests
                  <= Len(passed[j]) + One(op[t].pc \in Ahead[j]) + requests'
             /\ counter'[j].count + One(r.pc \in Uncounted[j]) + requests
                  <= counter[j].count + One(op[t].pc \in Uncounted[j]) + requests'
             /\ Len(passed[j]) <= Len(passed'[j])
  <2>1. Len(passed[j]) \in Nat /\ counter[j].count \in Nat
    BY NumbersTyped DEF Numbers
  <2>2. Len(passed'[j]) = Len(passed[j]) + One(j = k)
    BY <1>1, PassedMore
  <2>. QED
    <3>1. CASE j = k
      <4>1. Len(passed'[j]) = Len(passed[j]) + 1
        BY <2>2, <3>1 DEF One
      <4>2. /\ One(op[t].pc \in Ahead[j]) = 1 /\ One(r.pc \in Ahead[j]) = 0
            /\ One(r.pc \in Uncounted[j]) <= One(op[t].pc \in Uncounted[j])
            /\ One(r.pc \in Uncounted[j]) \in Nat /\ One(op[t].pc \in Uncounted[j]) \in Nat
        BY <1>1, <3>1 DEF One, Ahead, Uncounted, AddPc, Limiters
      <4>. QED
        BY <1>1, <2>1, <4>1, <4>2
    <3>2. CASE j # k
      <4>1. Len(passed'[j]) = Len(passed[j])
        BY <2>1, <2>2, <3>2 DEF One
      <4>2. /\ One(r.pc \in Ahead[j]) <= One(op[t].pc \in Ahead[j])
            /\ One(r.pc \in Ahead[j]) \in Nat /\ One(op[t].pc \in Ahead[j]) \in Nat
            /\ One(r.pc \in Uncounted[j]) <= One(op[t].pc \in Uncounted[j])
            /\ One(r.pc \in Uncounted[j]) \in Nat /\ One(op[t].pc \in Uncounted[j]) \in Nat
        BY <1>1, <3>2 DEF One, Ahead, Uncounted, AddPc, Limiters
      <4>. QED
        BY <1>1, <2>1, <4>1, <4>2
    <3>. QED
      BY <3>1, <3>2
<1>4. ASSUME NEW j \in Limiters PROVE Len(store'[j]) <= Len(passed'[j])
  <2>1. /\ Len(passed[j]) \in Nat /\ Len(store[j]) \in Nat /\ Len(store[j]) <= Len(passed[j])
        /\ store[j] \in Seq(Nat)
    BY NumbersTyped DEF Numbers, Counted, Typed
  <2>2. Len(passed'[j]) = Len(passed[j]) + One(j = k)
    BY <1>1, PassedMore
  <2>3. CASE j = k
    <3>1. store'[j] = Append(store[j], op[t].at)
      BY <1>1, <2>3 DEF Typed
    <3>2. Len(store'[j]) = Len(store[j]) + 1
      BY <2>1, <3>1
    <3>. QED
      BY <2>1, <2>2, <2>3, <3>2 DEF One
  <2>4. CASE j # k
    <3>1. store'[j] = store[j]
      BY <1>1, <2>4 DEF Typed
    <3>. QED
      BY <2>1, <2>2, <2>4, <3>1 DEF One
  <2>. QED
    BY <2>3, <2>4
<1>5. \A j \in Limiters : r.pc # StorePc[j]
  BY <1>1 DEF StorePc, Limiters
<1>6. \A j \in Limiters : r.pc = StorePc[j] => Len(r.pruned) <= Len(passed[j])
  BY <1>5
<1>7. made' \in Nat /\ requests' <= MaxRequests
  BY <1>1
<1>. QED
  BY <1>1, <1>2, <1>3, <1>4, <1>6, <1>7, BudgetStep

\* Steps that leave the limiters alone.
LEMMA PlainCounted ==
    ASSUME Inv, Typed, Typed', Counted, NEW t \in Threads, NEW r, op' = [op EXCEPT ![t] = r],
           requests' <= MaxRequests, UNCHANGED limitVars,
           \/ Decided(t, r)
           \/ op[t].pc = "idle" /\ requests' = requests + 1 /\ r.pc = "select" /\ made' = made
    PROVE  Counted'
<1>1. made \in Nat /\ requests \in Nat /\ requests' \in {requests, requests + 1}
  BY DEF Inv, Typed, Decided
<1>2. made' + One(r.pc \in Busy) + requests <= made + One(op[t].pc \in Busy) + requests' /\ made' \in Nat
  BY <1>1 DEF One, Busy, Places, Decided
<1>3. r.pc \in {"select", "write", "idle"} /\ op[t].pc \in {"select", "write", "idle"} /\ requests <= requests'
  BY <1>1 DEF Decided
<1>4. ASSUME NEW j \in Limiters
      PROVE  /\ Len(passed'[j]) + One(r.pc \in Ahead[j]) + requests
                  <= Len(passed[j]) + One(op[t].pc \in Ahead[j]) + requests'
             /\ counter'[j].count + One(r.pc \in Uncounted[j]) + requests
                  <= counter[j].count + One(op[t].pc \in Uncounted[j]) + requests'
             /\ Len(passed[j]) <= Len(passed'[j])
             /\ Len(store'[j]) <= Len(passed'[j])
             /\ r.pc # StorePc[j]
  <2>1. Len(passed[j]) \in Nat /\ counter[j].count \in Nat /\ Len(store[j]) <= Len(passed[j])
    BY NumbersTyped DEF Numbers, Counted
  <2>2. passed'[j] = passed[j] /\ counter'[j] = counter[j] /\ store'[j] = store[j]
    BY DEF limitVars
  <2>3. One(r.pc \in Ahead[j]) = 0 /\ One(op[t].pc \in Ahead[j]) = 0 /\ r.pc # StorePc[j]
    BY <1>3 DEF One, Ahead, StorePc, Limiters
  <2>4. One(r.pc \in Uncounted[j]) = 0 /\ One(op[t].pc \in Uncounted[j]) = 0
    BY <1>3 DEF One, Uncounted, Limiters
  <2>. QED
    BY <1>1, <1>3, <2>1, <2>2, <2>3, <2>4
<1>. QED
  BY <1>2, <1>4, BudgetStep

LEMMA CountedStep ==
    ASSUME Inv, Typed, Typed', Counted, Outside \/ \E t \in Threads : \E r : ThreadStep(t, r)
    PROVE  Counted'
<1>1. CASE Outside
  BY <1>1 DEF Outside, Counted, limitVars, At
<1>2. ASSUME NEW t \in Threads, NEW r, ThreadStep(t, r) PROVE Counted'
  <2>1. requests \in Nat /\ requests <= MaxRequests /\ MaxRequests \in Nat
    BY AccountsAssumption DEF Typed, Counted
  <2>2. CASE Arrived(t, r)
    <3>1. requests' <= MaxRequests /\ requests' = requests + 1 /\ op[t].pc = "idle"
      BY <2>1, <2>2 DEF Arrived
    <3>2. CASE Checked(t, r, "ip")
      BY <3>1, <3>2, CheckedCounted DEF Limiters
    <3>3. CASE op' = [op EXCEPT ![t] = r] /\ r.pc = "select" /\ UNCHANGED <<now, made, valkeyVars, limitVars>>
      BY <3>1, <3>3, PlainCounted
    <3>. QED
      BY <2>2, <3>2, <3>3 DEF Arrived
  <2>3. CASE EmailChecked(t, r)
    BY <2>1, <2>3, CheckedCounted DEF EmailChecked, Limiters
  <2>4. CASE Decided(t, r)
    BY <2>1, <2>4, PlainCounted DEF Decided
  <2>. QED
    BY <1>2, <2>2, <2>3, <2>4, StoredCounted, AddedCounted DEF ThreadStep
<1>. QED
  BY <1>1, <1>2

-----------------------------------------------------------------------------
(* The columns of the row                                                  *)

Expiries == Times \cup {None} \cup {u + CodeLife : u \in Times}

RowOK(row, n) ==
    /\ row.vcode \in (1..n) \cup {None} /\ row.rcode \in (1..n) \cup {None}
    /\ row.until \in Expiries
    /\ row.rcode = None <=> row.until = None

Rows == user # None => RowOK(user, made)

LEMMA RowsStay ==
    ASSUME NEW row, NEW n \in Nat, NEW m \in Nat, n <= m, RowOK(row, n)
    PROVE  RowOK(row, m)
BY DEF RowOK

LEMMA RowsStep ==
    ASSUME Inv, Typed, Rows, [Next]_vars
    PROVE  Rows'
<1>1. made \in Nat /\ made + 1 \in Nat /\ made + 1 # None /\ now \in Times /\ now \in Nat /\ CodeLife \in Nat
  BY AccountsAssumption DEF Inv, Typed
<1>2. now + CodeLife \in Expiries /\ now + CodeLife # None /\ None \in Expiries
  <2>1. now + CodeLife \in Nat
    BY <1>1
  <2>. QED
    BY <1>1, <2>1, AccountsAssumption DEF Expiries
<1>3. ASSUME UNCHANGED <<user, made>> PROVE Rows'
  BY <1>3 DEF Rows
<1>4. ASSUME NEW t \in Threads, Insert(t) PROVE Rows'
  <2>1. CASE user = None
    <3>. DEFINE row == [pw |-> op[t].pw, verified |-> FALSE, vcode |-> made + 1, rcode |-> None, until |-> None]
    <3>1. made' = made + 1 /\ user' = row
      BY <1>4, <2>1 DEF Insert, MakeCode
    <3>2. row.vcode = made + 1 /\ row.rcode = None /\ row.until = None
      OBVIOUS
    <3>. HIDE DEF row
    <3>3. RowOK(row, made + 1)
      BY <1>1, <1>2, <3>2 DEF RowOK
    <3>. QED
      BY <3>1, <3>3 DEF Rows
  <2>2. CASE user # None
    BY <1>3, <1>4, <2>2 DEF Insert
  <2>. QED
    BY <2>1, <2>2
<1>5. ASSUME NEW t \in Threads, Verify(t) PROVE Rows'
  <2>. DEFINE row == [user EXCEPT !.verified = TRUE, !.vcode = None]
  <2>1. user \in Users /\ user # None /\ user' = row /\ made' = made
    BY <1>5, Written DEF Verify
  <2>2. row.vcode = None /\ row.rcode = user.rcode /\ row.until = user.until
    BY <2>1 DEF Users
  <2>. HIDE DEF row
  <2>3. RowOK(row, made)
    BY <2>1, <2>2 DEF Rows, RowOK
  <2>. QED
    BY <2>1, <2>3 DEF Rows
<1>6. ASSUME NEW t \in Threads, Resend(t) PROVE Rows'
  <2>. DEFINE row == [user EXCEPT !.vcode = made + 1]
  <2>1. user \in Users /\ user # None /\ user' = row /\ made' = made + 1
    BY <1>6, Written DEF Resend, MakeCode
  <2>2. row.vcode = made + 1 /\ row.rcode = user.rcode /\ row.until = user.until
    BY <2>1 DEF Users
  <2>. HIDE DEF row
  <2>3. RowOK(user, made + 1)
    BY <1>1, <2>1, RowsStay DEF Rows
  <2>4. RowOK(row, made + 1)
    BY <1>1, <2>2, <2>3 DEF RowOK
  <2>. QED
    BY <2>1, <2>4 DEF Rows
<1>7. ASSUME NEW t \in Threads, Change(t) PROVE Rows'
  <2>. DEFINE row == [user EXCEPT !.pw = op[t].new]
  <2>1. user \in Users /\ user # None /\ user' = row /\ made' = made
    BY <1>7, Written DEF Change
  <2>2. row.vcode = user.vcode /\ row.rcode = user.rcode /\ row.until = user.until
    BY <2>1 DEF Users
  <2>. HIDE DEF row
  <2>3. RowOK(row, made)
    BY <2>1, <2>2 DEF Rows, RowOK
  <2>. QED
    BY <2>1, <2>3 DEF Rows
<1>8. ASSUME NEW t \in Threads, RequestReset(t) PROVE Rows'
  <2>. DEFINE row == [user EXCEPT !.rcode = made + 1, !.until = now + CodeLife]
  <2>1. user \in Users /\ user # None /\ user' = row /\ made' = made + 1
    BY <1>8, Written DEF RequestReset, MakeCode
  <2>2. row.vcode = user.vcode /\ row.rcode = made + 1 /\ row.until = now + CodeLife
    BY <2>1 DEF Users
  <2>. HIDE DEF row
  <2>3. RowOK(user, made + 1)
    BY <1>1, <2>1, RowsStay DEF Rows
  <2>4. RowOK(row, made + 1)
    BY <1>1, <1>2, <2>2, <2>3 DEF RowOK
  <2>. QED
    BY <2>1, <2>4 DEF Rows
<1>9. ASSUME NEW t \in Threads, Reset(t) PROVE Rows'
  <2>. DEFINE row == [user EXCEPT !.pw = op[t].new, !.rcode = None, !.until = None]
  <2>1. user \in Users /\ user # None /\ user' = row /\ made' = made
    BY <1>9, Written DEF Reset
  <2>2. row.vcode = user.vcode /\ row.rcode = None /\ row.until = None
    BY <2>1 DEF Users
  <2>. HIDE DEF row
  <2>3. RowOK(row, made)
    BY <1>2, <2>1, <2>2 DEF Rows, RowOK
  <2>. QED
    BY <2>1, <2>3 DEF Rows
<1>10. ASSUME NEW t \in Threads,
              \/ Arrive(t) \/ CheckEmail(t) \/ Select(t) \/ Log(t)
              \/ \E k \in Limiters : MemStore(t, k) \/ MemAdd(t, k)
       PROVE  UNCHANGED <<user, made>>
  <2>1. CASE Arrive(t)
    BY <2>1 DEF Arrive, CheckLimit, accountVars
  <2>2. CASE CheckEmail(t) \/ Select(t) \/ Log(t)
    BY <2>2 DEF CheckEmail, CheckLimit, Select, Log, accountVars
  <2>3. CASE \E k \in Limiters : MemStore(t, k) \/ MemAdd(t, k)
    BY <2>3 DEF MemStore, MemAdd, accountVars
  <2>. QED
    BY <1>10, <2>1, <2>2, <2>3
<1>11. CASE Tick \/ Outage \/ UNCHANGED vars
  BY <1>3, <1>11 DEF Tick, Outage, vars, accountVars
<1>12. ASSUME NEW t \in Threads,
              \/ Arrive(t) \/ CheckEmail(t) \/ Select(t)
              \/ Insert(t) \/ Verify(t) \/ Resend(t) \/ Log(t)
              \/ Change(t) \/ RequestReset(t) \/ Reset(t)
              \/ \E k \in Limiters : MemStore(t, k) \/ MemAdd(t, k)
       PROVE  Rows'
  BY <1>3, <1>4, <1>5, <1>6, <1>7, <1>8, <1>9, <1>10, <1>12
<1>. QED
  BY <1>11, <1>12 DEF Next

-----------------------------------------------------------------------------
(* The inductive invariant of the types                                    *)

Sound == Inv /\ Typed /\ Counted /\ Rows

LEMMA InitSound == Init => Sound
<1>. SUFFICES ASSUME Init PROVE Sound
  OBVIOUS
<1>1. <<>> \in Seq(Nat) /\ Len(<<>>) = 0 /\ 0 \in Times /\ 0 \in 0..MaxOutages
  BY AccountsAssumption DEF Times
<1>2. \A t \in Threads : op[t] = NoOp
  BY DEF Init
<1>3. Typed
  <2>1. \A t \in Threads : RequestOK(op[t])
    BY <1>2, NoOpRequest
  <2>2. connected \in BOOLEAN /\ valkey \in BOOLEAN
    BY Zenon DEF Init
  <2>3. /\ passed \in [Limiters -> Seq(Nat)] /\ store \in [Limiters -> Seq(Nat)]
        /\ counter \in [Limiters -> [count : Nat, until : Nat]]
    BY <1>1 DEF Init
  <2>4. now \in Times /\ requests \in Nat /\ outages \in 0..MaxOutages
    BY <1>1 DEF Init
  <2>. QED
    BY <2>1, <2>2, <2>3, <2>4, Zenon DEF Typed
<1>4. Counted
  <2>1. ASSUME NEW P, "idle" \notin P PROVE At(op, P) = 0
    <3>1. {t \in Threads : op[t].pc \in P} = {}
      BY <1>2, <2>1, NoOpRequest
    <3>. QED
      BY <3>1, FS_EmptySet DEF At
  <2>2. At(op, Busy) = 0 /\ \A k \in Limiters : At(op, Ahead[k]) = 0 /\ At(op, Uncounted[k]) = 0
    BY <2>1 DEF Busy, Ahead, Uncounted, Limiters
  <2>3. \A k \in Limiters : Len(passed[k]) = 0 /\ Len(store[k]) = 0 /\ counter[k].count = 0
    BY <1>1 DEF Init
  <2>4. requests = 0 /\ made = 0 /\ MaxRequests \in Nat
    BY AccountsAssumption DEF Init
  <2>5. \A t \in Threads, k \in Limiters : op[t].pc # StorePc[k]
    BY <1>2, NoOpRequest DEF StorePc, Limiters
  <2>. QED
    BY <2>2, <2>3, <2>4, <2>5 DEF Counted
<1>5. Rows
  BY DEF Init, Rows
<1>. QED
  BY <1>3, <1>4, <1>5, Initially DEF Sound

LEMMA SoundStep ==
    ASSUME Sound, [Next]_vars
    PROVE  Sound'
<1>1. Inv /\ Typed /\ Counted /\ Rows
  BY DEF Sound
<1>2. Inv' /\ Rows'
  BY <1>1, Inductive, RowsStep
<1>3. Outside \/ \E t \in Threads : \E r : ThreadStep(t, r)
  BY <1>1, StepCases
<1>4. Typed'
  <2>1. OpsOK
    BY <1>1 DEF Inv
  <2>. QED
    BY <1>1, <1>3, <2>1, ThreadTyped, OutsideTyped
<1>5. Counted'
  BY <1>1, <1>3, <1>4, CountedStep
<1>. QED
  BY <1>2, <1>4, <1>5 DEF Sound

LEMMA SoundTypes == Sound => TypeOK
<1>. SUFFICES ASSUME Sound PROVE TypeOK
  OBVIOUS
<1>1. Inv /\ Typed /\ Counted /\ Rows
  BY DEF Sound
<1>2. requests \in Nat /\ requests <= MaxRequests /\ MaxRequests \in Nat /\ made \in Nat
  BY <1>1, AccountsAssumption DEF Typed, Counted, Inv
<1>3. \A P : At(op, P) \in Nat
  <2>1. ASSUME NEW P PROVE At(op, P) \in Nat
    <3>1. IsFiniteSet({t \in Threads : op[t].pc \in P})
      BY AccountsAssumption, FS_Subset
    <3>. QED
      BY <3>1, FS_CardinalityType DEF At
  <2>. QED
    BY <2>1
<1>4. now \in Times /\ requests \in 0..MaxRequests /\ made \in 0..MaxRequests
  <2>1. made + At(op, Busy) <= requests
    BY <1>1 DEF Counted
  <2>2. made <= requests
    BY <1>2, <1>3, <2>1
  <2>. QED
    BY <1>1, <1>2, <2>2 DEF Typed
<1>5. mailed \subseteq 1..made /\ joined \in Nat
  BY <1>1 DEF Inv, Owner
<1>6. {session, connected, valkey} \subseteq BOOLEAN /\ outages \in 0..MaxOutages
  <2>1. session \in BOOLEAN
    BY <1>1, Zenon DEF Inv, Owner
  <2>. QED
    BY <1>1, <2>1, Zenon DEF Typed
<1>7. user # None =>
          /\ user \in Users
          /\ user.vcode \in (1..made) \cup {None} /\ user.rcode \in (1..made) \cup {None}
          /\ user.until \in Times \cup {None} \cup {u + CodeLife : u \in Times}
          /\ user.rcode = None <=> user.until = None
  BY <1>1, Zenon DEF Inv, Rows, RowOK, Expiries
<1>8. ASSUME NEW k \in Limiters
      PROVE  counter[k].count \in 0..MaxRequests /\ Len(store[k]) <= requests
  <2>1. /\ Len(passed[k]) + At(op, Ahead[k]) <= requests
        /\ counter[k].count + At(op, Uncounted[k]) <= requests
        /\ Len(store[k]) <= Len(passed[k])
    BY <1>1 DEF Counted
  <2>2. Len(passed[k]) \in Nat /\ Len(store[k]) \in Nat /\ counter[k].count \in Nat
    BY <1>1, NumbersTyped DEF Numbers
  <2>. QED
    BY <1>2, <1>3, <2>1, <2>2
<1>. QED
  BY <1>4, <1>5, <1>6, <1>7, <1>8 DEF TypeOK

\* TypeOK: in particular the limiters' counters and lists grow no faster than
\* the requests, although threads store lists they read earlier, and a reset
\* code and its expiry are set and cleared together.
THEOREM AccountsTypeCorrect == Spec => []TypeOK
BY InitSound, SoundStep, SoundTypes, PTL DEF Spec

-----------------------------------------------------------------------------
(* The limits, as long as Valkey answers                                   *)

\* The requests that limiter k has counted and that are in its in-memory part.
HeldBy == [ip |-> {}, email |-> {"emailStore", "emailAdd"}]

Windowed ==
    connected /\ outages = 0 =>
        /\ valkey
        /\ \A t \in Threads : op[t].pc \notin {"ipStore", "ipAdd"}
        /\ \A k \in Limiters : Under(Tokens(passed[k], op, HeldBy[k]), counter[k], now, Max[k], Window[k])

\* The requests that count, of a limiter that has let p and then q through,
\* when the request of thread t becomes r.
Exchange(p, q, t, r, P, A) ==
    /\ Tokens(p, op, P)[A] \in Nat /\ Tokens(q, op', P)[A] \in Nat
    /\ Tokens(q, op', P)[A] + Cardinality(Let(p, A)) + One(t \in Held(op, P, A))
         = Tokens(p, op, P)[A] + Cardinality(Let(q, A)) + One(t \in Held(op', P, A))
    /\ t \in Held(op, P, A) <=> (op[t].pc \in P /\ op[t].at \in A)
    /\ t \in Held(op', P, A) <=> (r.pc \in P /\ r.at \in A)

LEMMA TokensStep ==
    ASSUME OpsOK, NEW t \in Threads, NEW r, op' = [op EXCEPT ![t] = r],
           NEW p \in Seq(Nat), NEW q \in Seq(Nat), NEW P, NEW A \in SUBSET Nat
    PROVE  Exchange(p, q, t, r, P, A)
<1>1. /\ Cardinality(Held(op, P, A)) \in Nat /\ Cardinality(Held(op', P, A)) \in Nat
      /\ Cardinality(Held(op', P, A)) + One(t \in Held(op, P, A))
           = Cardinality(Held(op, P, A)) + One(t \in Held(op', P, A))
      /\ t \in Held(op, P, A) <=> (op[t].pc \in P /\ op[t].at \in A)
      /\ t \in Held(op', P, A) <=> (r.pc \in P /\ r.at \in A)
  <2>1. op = [u \in Threads |-> op[u]]
    BY DEF OpsOK
  <2>2. PICK n : n = op'
    OBVIOUS
  <2>3. n = [op EXCEPT ![t] = r]
    BY <2>2
  <2>4. Moved(op, n, t, r, P, A)
    BY <2>1, <2>3, HeldStep
  <2>5. Moved(op, op', t, r, P, A)
    BY <2>2, <2>4
  <2>. QED
    BY <2>5 DEF Moved
<1>2. Cardinality(Let(p, A)) \in Nat /\ Cardinality(Let(q, A)) \in Nat
  BY LetFinite
<1>3. /\ Tokens(p, op, P)[A] = Cardinality(Let(p, A)) + Cardinality(Held(op, P, A))
      /\ Tokens(q, op', P)[A] = Cardinality(Let(q, A)) + Cardinality(Held(op', P, A))
  BY DEF Tokens
<1>4. One(t \in Held(op, P, A)) \in Nat /\ One(t \in Held(op', P, A)) \in Nat
  BY DEF One
<1>5. /\ Tokens(p, op, P)[A] \in Nat /\ Tokens(q, op', P)[A] \in Nat
      /\ Tokens(q, op', P)[A] + Cardinality(Let(p, A)) + One(t \in Held(op, P, A))
           = Tokens(p, op, P)[A] + Cardinality(Let(q, A)) + One(t \in Held(op', P, A))
  <2>. DEFINE a == Cardinality(Held(op, P, A))
              b == Cardinality(Held(op', P, A))
              c == Cardinality(Let(p, A))
              d == Cardinality(Let(q, A))
              x == One(t \in Held(op, P, A))
              y == One(t \in Held(op', P, A))
  <2>1. a \in Nat /\ b \in Nat /\ c \in Nat /\ d \in Nat /\ x \in Nat /\ y \in Nat /\ b + x = a + y
    BY <1>1, <1>2, <1>4
  <2>. HIDE DEF a, b, c, d, x, y
  <2>2. c + a \in Nat /\ d + b \in Nat /\ (d + b) + c + x = (c + a) + d + y
    BY <2>1
  <2>. QED
    BY <1>3, <2>2 DEF a, b, c, d, x, y
<1>. QED
  BY <1>1, <1>5 DEF Exchange

\* A request that is let through later, or not at all, is not one more.
LEMMA TokensFewer ==
    ASSUME OpsOK, NEW t \in Threads, NEW r, op' = [op EXCEPT ![t] = r],
           NEW p \in Seq(Nat), NEW P,
           r.pc \in P => op[t].pc \in P /\ r.at = op[t].at
    PROVE  \A A \in SUBSET Nat : Tokens(p, op', P)[A] <= Tokens(p, op, P)[A]
<1>. SUFFICES ASSUME NEW A \in SUBSET Nat PROVE Tokens(p, op', P)[A] <= Tokens(p, op, P)[A]
  OBVIOUS
<1>1. /\ Tokens(p, op, P)[A] \in Nat /\ Tokens(p, op', P)[A] \in Nat
      /\ Tokens(p, op', P)[A] + Cardinality(Let(p, A)) + One(t \in Held(op, P, A))
           = Tokens(p, op, P)[A] + Cardinality(Let(p, A)) + One(t \in Held(op', P, A))
      /\ t \in Held(op, P, A) <=> (op[t].pc \in P /\ op[t].at \in A)
      /\ t \in Held(op', P, A) <=> (r.pc \in P /\ r.at \in A)
  <2>1. Exchange(p, p, t, r, P, A)
    BY TokensStep
  <2>. QED
    BY <2>1 DEF Exchange
<1>2. Cardinality(Let(p, A)) \in Nat
  BY LetFinite
<1>3. /\ One(t \in Held(op, P, A)) \in Nat /\ One(t \in Held(op', P, A)) \in Nat
      /\ One(t \in Held(op', P, A)) <= One(t \in Held(op, P, A))
  BY <1>1 DEF One
<1>. QED
  BY <1>1, <1>2, <1>3

\* M counts one request more than N, of time x.
OneMore(N, M, x) == \A A \in SUBSET Nat : M[A] = N[A] + One(x \in A)

\* A request the limiter lets through at once ...
LEMMA TokensPassed ==
    ASSUME OpsOK, NEW t \in Threads, NEW r, op' = [op EXCEPT ![t] = r],
           NEW p \in Seq(Nat), NEW x \in Nat, NEW P, r.pc \notin P, op[t].pc \notin P
    PROVE  OneMore(Tokens(p, op, P), Tokens(Append(p, x), op', P), x)
<1>. SUFFICES ASSUME NEW A \in SUBSET Nat
              PROVE  Tokens(Append(p, x), op', P)[A] = Tokens(p, op, P)[A] + One(x \in A)
  BY DEF OneMore
<1>. DEFINE q == Append(p, x)
<1>0. q \in Seq(Nat)
  OBVIOUS
<1>4. Cardinality(Let(q, A)) = Cardinality(Let(p, A)) + One(x \in A)
  BY LetMore
<1>. HIDE DEF q
<1>1. /\ Tokens(p, op, P)[A] \in Nat /\ Tokens(q, op', P)[A] \in Nat
      /\ Tokens(q, op', P)[A] + Cardinality(Let(p, A)) + One(t \in Held(op, P, A))
           = Tokens(p, op, P)[A] + Cardinality(Let(q, A)) + One(t \in Held(op', P, A))
      /\ t \in Held(op, P, A) <=> (op[t].pc \in P /\ op[t].at \in A)
      /\ t \in Held(op', P, A) <=> (r.pc \in P /\ r.at \in A)
  <2>1. Exchange(p, q, t, r, P, A)
    BY <1>0, TokensStep
  <2>. QED
    BY <2>1 DEF Exchange
<1>2. Cardinality(Let(p, A)) \in Nat /\ Cardinality(Let(q, A)) \in Nat
  BY <1>0, LetFinite
<1>3. One(t \in Held(op, P, A)) = 0 /\ One(t \in Held(op', P, A)) = 0 /\ One(x \in A) \in Nat
  BY <1>1 DEF One
<1>5. Tokens(q, op', P)[A] = Tokens(p, op, P)[A] + One(x \in A)
  <2>. DEFINE m == Tokens(q, op', P)[A]
              n == Tokens(p, op, P)[A]
              c == Cardinality(Let(p, A))
              one == One(x \in A)
  <2>1. m \in Nat /\ n \in Nat /\ c \in Nat /\ one \in Nat /\ m + c + 0 = n + (c + one) + 0
    BY <1>1, <1>2, <1>3, <1>4
  <2>. HIDE DEF m, n, c, one
  <2>2. m = n + one
    BY <2>1
  <2>. QED
    BY <2>2 DEF m, n, one
<1>. QED
  BY <1>5 DEF q

\* ... one the in-memory limiter goes on with ...
LEMMA TokensHeld ==
    ASSUME OpsOK, NEW t \in Threads, NEW r, op' = [op EXCEPT ![t] = r],
           NEW p \in Seq(Nat), NEW P, r.pc \in P, op[t].pc \notin P
    PROVE  OneMore(Tokens(p, op, P), Tokens(p, op', P), r.at)
<1>. SUFFICES ASSUME NEW A \in SUBSET Nat
              PROVE  Tokens(p, op', P)[A] = Tokens(p, op, P)[A] + One(r.at \in A)
  BY DEF OneMore
<1>1. /\ Tokens(p, op, P)[A] \in Nat /\ Tokens(p, op', P)[A] \in Nat
      /\ Tokens(p, op', P)[A] + Cardinality(Let(p, A)) + One(t \in Held(op, P, A))
           = Tokens(p, op, P)[A] + Cardinality(Let(p, A)) + One(t \in Held(op', P, A))
      /\ t \in Held(op, P, A) <=> (op[t].pc \in P /\ op[t].at \in A)
      /\ t \in Held(op', P, A) <=> (r.pc \in P /\ r.at \in A)
  <2>1. Exchange(p, p, t, r, P, A)
    BY TokensStep
  <2>. QED
    BY <2>1 DEF Exchange
<1>2. Cardinality(Let(p, A)) \in Nat
  BY LetFinite
<1>3. /\ One(t \in Held(op, P, A)) = 0 /\ One(r.at \in A) \in Nat
      /\ One(t \in Held(op', P, A)) = One(r.at \in A)
  BY <1>1 DEF One
<1>4. Tokens(p, op', P)[A] = Tokens(p, op, P)[A] + One(r.at \in A)
  <2>. DEFINE m == Tokens(p, op', P)[A]
              n == Tokens(p, op, P)[A]
              c == Cardinality(Let(p, A))
              one == One(r.at \in A)
  <2>1. m \in Nat /\ n \in Nat /\ c \in Nat /\ one \in Nat /\ m + c + 0 = n + c + one
    BY <1>1, <1>2, <1>3
  <2>. HIDE DEF m, n, c, one
  <2>2. m = n + one
    BY <2>1
  <2>. QED
    BY <2>2 DEF m, n, one
<1>. QED
  BY <1>4

\* ... and one it lets through in the end, which was counted before.
LEMMA TokensAdded ==
    ASSUME OpsOK, NEW t \in Threads, NEW r, op' = [op EXCEPT ![t] = r],
           NEW p \in Seq(Nat), op[t].at \in Nat, NEW P, r.pc \notin P, op[t].pc \in P
    PROVE  \A A \in SUBSET Nat : Tokens(Append(p, op[t].at), op', P)[A] <= Tokens(p, op, P)[A]
<1>. SUFFICES ASSUME NEW A \in SUBSET Nat
              PROVE  Tokens(Append(p, op[t].at), op', P)[A] <= Tokens(p, op, P)[A]
  OBVIOUS
<1>. DEFINE q == Append(p, op[t].at)
<1>0. q \in Seq(Nat)
  OBVIOUS
<1>4. Cardinality(Let(q, A)) = Cardinality(Let(p, A)) + One(op[t].at \in A)
  BY LetMore
<1>. HIDE DEF q
<1>1. /\ Tokens(p, op, P)[A] \in Nat /\ Tokens(q, op', P)[A] \in Nat
      /\ Tokens(q, op', P)[A] + Cardinality(Let(p, A)) + One(t \in Held(op, P, A))
           = Tokens(p, op, P)[A] + Cardinality(Let(q, A)) + One(t \in Held(op', P, A))
      /\ t \in Held(op, P, A) <=> (op[t].pc \in P /\ op[t].at \in A)
      /\ t \in Held(op', P, A) <=> (r.pc \in P /\ r.at \in A)
  <2>1. Exchange(p, q, t, r, P, A)
    BY <1>0, TokensStep
  <2>. QED
    BY <2>1 DEF Exchange
<1>2. Cardinality(Let(p, A)) \in Nat /\ Cardinality(Let(q, A)) \in Nat
  BY <1>0, LetFinite
<1>3. /\ One(t \in Held(op, P, A)) = One(op[t].at \in A) /\ One(op[t].at \in A) \in Nat
      /\ One(t \in Held(op', P, A)) = 0
  BY <1>1 DEF One
<1>5. Tokens(q, op', P)[A] <= Tokens(p, op, P)[A]
  <2>1. /\ Tokens(q, op', P)[A] + Cardinality(Let(p, A)) + One(op[t].at \in A)
             = Tokens(p, op, P)[A] + (Cardinality(Let(p, A)) + One(op[t].at \in A)) + 0
        /\ Tokens(p, op, P)[A] \in Nat /\ Tokens(q, op', P)[A] \in Nat
    BY <1>1, <1>3, <1>4
  <2>. QED
    BY <1>2, <1>3, <2>1
<1>. QED
  BY <1>5 DEF q

\* Limiter k, and after the step.
Limited(k) == Under(Tokens(passed[k], op, HeldBy[k]), counter[k], now, Max[k], Window[k])

LEMMA LimitFacts ==
    ASSUME Typed, NEW k \in Limiters
    PROVE  /\ now \in Nat /\ Max[k] \in Nat /\ Window[k] \in Nat \ {0} /\ passed[k] \in Seq(Nat)
           /\ Measure(Tokens(passed[k], op, HeldBy[k]))
<1>1. passed[k] \in Seq(Nat) /\ now \in Nat
  BY DEF Typed, Times
<1>2. Max[k] \in Nat /\ Window[k] \in Nat \ {0}
  BY AccountsAssumption
<1>. QED
  BY <1>1, <1>2, TokensMeasure

\* The limiter after the step, as a statement about values.
LimitedAs(k, N, c, time) ==
    /\ N = Tokens(passed'[k], op', HeldBy[k]) /\ c = counter'[k] /\ time = now'
    /\ time \in Nat /\ passed'[k] \in Seq(Nat) /\ Measure(N)

LEMMA LimitedAfter ==
    ASSUME Typed', NEW k \in Limiters
    PROVE  \E N, c, time : LimitedAs(k, N, c, time)
<1>1. passed'[k] \in Seq(Nat) /\ now' \in Nat
  BY DEF Typed, Times
<1>2. PICK p, o, N, c, time :
         p = passed'[k] /\ o = op' /\ N = Tokens(p, o, HeldBy[k]) /\ c = counter'[k] /\ time = now'
  OBVIOUS
<1>3. p \in Seq(Nat)
  BY <1>1, <1>2
<1>4. Measure(Tokens(p, o, HeldBy[k]))
  BY <1>3, TokensMeasure
<1>5. LimitedAs(k, N, c, time)
  BY <1>1, <1>2, <1>4 DEF LimitedAs
<1>. QED
  BY <1>5

\* No request more: the limiter stands, with the counter extended or not.
LEMMA KeptLimited ==
    ASSUME Typed, Typed', NEW k \in Limiters, Limited(k), now <= now',
           \/ counter'[k] = counter[k]
           \/ counter'[k] = Extend(k) /\ now' = now,
           \A A \in SUBSET Nat : Tokens(passed'[k], op', HeldBy[k])[A] <= Tokens(passed[k], op, HeldBy[k])[A]
    PROVE  Limited(k)'
<1>. DEFINE N == Tokens(passed[k], op, HeldBy[k])
<1>1. PICK M, d, later : LimitedAs(k, M, d, later)
  BY LimitedAfter
<1>2. /\ now \in Nat /\ Max[k] \in Nat /\ Window[k] \in Nat \ {0} /\ Measure(N)
      /\ later \in Nat /\ Measure(M) /\ now <= later
  BY <1>1, LimitFacts DEF LimitedAs
<1>3. \A A \in SUBSET Nat : M[A] <= N[A]
  BY <1>1 DEF LimitedAs
<1>4. Under(N, counter[k], now, Max[k], Window[k])
  BY DEF Limited
<1>. HIDE DEF N
<1>5. CASE d = counter[k]
  <2>1. Under(M, counter[k], later, Max[k], Window[k])
    BY <1>2, <1>3, <1>4, FewerUnder
  <2>. QED
    BY <1>1, <1>5, <2>1 DEF Limited, LimitedAs
<1>6. CASE d = Extend(k) /\ later = now
  <2>1. Under(N, Extend(k), now, Max[k], Window[k])
    BY <1>2, <1>4, RefusedUnder DEF Extend
  <2>2. Under(M, Extend(k), now, Max[k], Window[k])
    BY <1>2, <1>3, <1>6, <2>1, FewerUnder
  <2>. QED
    BY <1>1, <1>6, <2>2 DEF Limited, LimitedAs
<1>. QED
  BY <1>1, <1>5, <1>6 DEF LimitedAs

\* A request more, which the counter allows.
LEMMA AllowedLimited ==
    ASSUME Typed, Typed', NEW k \in Limiters, Limited(k), now' = now,
           counter'[k] = Extend(k), Extend(k).count <= Max[k],
           OneMore(Tokens(passed[k], op, HeldBy[k]), Tokens(passed'[k], op', HeldBy[k]), now)
    PROVE  Limited(k)'
<1>. DEFINE N == Tokens(passed[k], op, HeldBy[k])
<1>1. PICK M, d, later : LimitedAs(k, M, d, later)
  BY LimitedAfter
<1>2. /\ now \in Nat /\ Max[k] \in Nat /\ Window[k] \in Nat \ {0} /\ Measure(N)
      /\ later = now /\ Measure(M)
  BY <1>1, LimitFacts DEF LimitedAs
<1>3. \A A \in SUBSET Nat : M[A] = N[A] + (IF now \in A THEN 1 ELSE 0)
  BY <1>1 DEF LimitedAs, One, OneMore
<1>4. Under(N, counter[k], now, Max[k], Window[k])
  BY DEF Limited
<1>. HIDE DEF N
<1>5. Extended(counter[k], now, Window[k]).count <= Max[k]
  BY DEF Extend
<1>6. Under(M, Extended(counter[k], now, Window[k]), now, Max[k], Window[k])
  BY <1>2, <1>3, <1>4, <1>5, AllowedUnder
<1>. QED
  BY <1>1, <1>2, <1>6 DEF Limited, LimitedAs, Extend

-----------------------------------------------------------------------------
\* The request of thread t moves on, and limiter k has let nothing through.
LEMMA MovedLimited ==
    ASSUME OpsOK, Typed, Typed', NEW k \in Limiters, Limited(k), NEW t \in Threads, NEW r,
           op' = [op EXCEPT ![t] = r], now' = now, passed'[k] = passed[k],
           counter'[k] = counter[k] \/ counter'[k] = Extend(k),
           r.pc \in HeldBy[k] => op[t].pc \in HeldBy[k] /\ r.at = op[t].at
    PROVE  Limited(k)'
<1>1. passed[k] \in Seq(Nat) /\ now \in Nat
  BY LimitFacts
<1>2. \A A \in SUBSET Nat : Tokens(passed[k], op', HeldBy[k])[A] <= Tokens(passed[k], op, HeldBy[k])[A]
  BY <1>1, TokensFewer
<1>3. now <= now'
  BY <1>1
<1>. QED
  BY <1>2, <1>3, KeptLimited

\* The states the windows are about.
Answering == connected /\ outages = 0

LEMMA CheckedWindowed ==
    ASSUME OpsOK, Typed, Typed', Windowed, NEW t \in Threads, NEW r, NEW k \in Limiters, Checked(t, r, k),
           (k = "ip" /\ op[t].pc = "idle") \/ (k = "email" /\ op[t].pc = "email")
    PROVE  Windowed'
<1>. SUFFICES ASSUME Answering PROVE Windowed'
  BY DEF Checked, valkeyVars, Windowed, Answering
<1>1. /\ connected /\ valkey /\ connected' /\ valkey' /\ \A j \in Limiters : Limited(j)
      /\ \A u \in Threads : op[u].pc \notin {"ipStore", "ipAdd"}
  BY DEF Windowed, Answering, Limited, Checked, valkeyVars
<1>2. /\ op' = [op EXCEPT ![t] = r] /\ now' = now /\ counter' = [counter EXCEPT ![k] = Extend(k)]
  BY <1>1 DEF Checked
<1>3. counter'[k] = Extend(k) /\ \A j \in Limiters : j # k => counter'[j] = counter[j]
  BY <1>2 DEF Typed
<1>4. r.pc \in {"idle", "email", "select", "emailStore"}
  BY <1>1 DEF Checked, StorePc, Limiters
<1>5. \A u \in Threads : op'[u].pc \notin {"ipStore", "ipAdd"}
  <2>1. op' = [u \in Threads |-> IF u = t THEN r ELSE op[u]]
    BY <1>2 DEF OpsOK
  <2>. QED
    BY <1>1, <1>4, <2>1
<1>6. ASSUME NEW j \in Limiters, j # k PROVE Limited(j)'
  <2>1. passed'[j] = passed[j]
    BY <1>6 DEF Checked, Typed
  <2>2. r.pc \notin HeldBy[j]
    BY <1>1, <1>4, <1>6 DEF HeldBy, Limiters, Checked, StorePc
  <2>. QED
    BY <1>1, <1>2, <1>3, <1>6, <2>1, <2>2, MovedLimited
<1>7. Limited(k)'
  <2>1. CASE r.pc = "idle" /\ passed' = passed
    <3>1. r.pc \notin HeldBy[k] /\ passed'[k] = passed[k]
      BY <2>1 DEF HeldBy, Limiters
    <3>. QED
      BY <1>1, <1>2, <1>3, <3>1, MovedLimited
  <2>2. CASE /\ k = "ip" /\ r.pc \in {"email", "select"}
             /\ passed' = [passed EXCEPT ![k] = Append(passed[k], now)]
             /\ Extend(k).count <= Max[k]
    <3>1. r.pc \notin HeldBy[k] /\ op[t].pc \notin HeldBy[k]
      BY <2>2 DEF HeldBy
    <3>2. passed'[k] = Append(passed[k], now)
      BY <2>2 DEF Typed
    <3>3. passed[k] \in Seq(Nat) /\ now \in Nat
      BY LimitFacts
    <3>4. OneMore(Tokens(passed[k], op, HeldBy[k]), Tokens(Append(passed[k], now), op', HeldBy[k]), now)
      BY <1>2, <3>1, <3>3, TokensPassed
    <3>5. OneMore(Tokens(passed[k], op, HeldBy[k]), Tokens(passed'[k], op', HeldBy[k]), now)
      BY <3>2, <3>4
    <3>. QED
      BY <1>1, <1>2, <1>3, <2>2, <3>5, AllowedLimited
  <2>3. CASE /\ k = "email" /\ r.pc = StorePc[k] /\ r.at = now /\ passed' = passed
             /\ Extend(k).count <= Max[k]
    <3>1. r.pc \in HeldBy[k] /\ op[t].pc \notin HeldBy[k]
      BY <2>3 DEF HeldBy, StorePc
    <3>2. passed'[k] = passed[k]
      BY <2>3
    <3>3. passed[k] \in Seq(Nat) /\ now \in Nat
      BY LimitFacts
    <3>4. OneMore(Tokens(passed[k], op, HeldBy[k]), Tokens(passed[k], op', HeldBy[k]), r.at)
      BY <1>2, <3>1, <3>3, TokensHeld
    <3>5. OneMore(Tokens(passed[k], op, HeldBy[k]), Tokens(passed'[k], op', HeldBy[k]), now)
      BY <2>3, <3>2, <3>4
    <3>. QED
      BY <1>1, <1>2, <1>3, <2>3, <3>5, AllowedLimited
  <2>. QED
    BY <1>1, <2>1, <2>2, <2>3 DEF Checked
<1>8. \A j \in Limiters : Limited(j)'
  BY <1>6, <1>7
<1>. QED
  BY <1>1, <1>5, <1>8 DEF Windowed, Limited

\* A step that limiters do not count.
LEMMA OtherWindowed ==
    ASSUME OpsOK, Typed, Typed', Windowed, NEW t \in Threads, NEW r, op' = [op EXCEPT ![t] = r],
           now' = now, UNCHANGED valkeyVars, counter' = counter, r.pc \notin {"ipStore", "ipAdd"},
           \A k \in Limiters : passed'[k] = passed[k] /\ (r.pc \in HeldBy[k] => op[t].pc \in HeldBy[k] /\ r.at = op[t].at)
    PROVE  Windowed'
<1>. SUFFICES ASSUME Answering PROVE Windowed'
  BY DEF valkeyVars, Windowed, Answering
<1>1. /\ valkey' /\ \A j \in Limiters : Limited(j)
      /\ \A u \in Threads : op[u].pc \notin {"ipStore", "ipAdd"}
  BY DEF Windowed, Answering, Limited, valkeyVars
<1>2. \A u \in Threads : op'[u].pc \notin {"ipStore", "ipAdd"}
  <2>1. op' = [u \in Threads |-> IF u = t THEN r ELSE op[u]]
    BY DEF OpsOK
  <2>. QED
    BY <1>1, <2>1
<1>3. \A j \in Limiters : Limited(j)'
  <2>1. \A j \in Limiters : counter'[j] = counter[j]
    OBVIOUS
  <2>. QED
    BY <1>1, <2>1, MovedLimited
<1>. QED
  BY <1>1, <1>2, <1>3 DEF Windowed, Limited

\* The request that is added was counted when it was let in.
LEMMA AddedWindowed ==
    ASSUME OpsOK, Typed, Typed', Windowed, NEW t \in Threads, NEW r, NEW k \in Limiters, Added(t, r, k)
    PROVE  Windowed'
<1>. SUFFICES ASSUME Answering PROVE Windowed'
  BY DEF Added, valkeyVars, Windowed, Answering
<1>1. /\ valkey' /\ \A j \in Limiters : Limited(j)
      /\ \A u \in Threads : op[u].pc \notin {"ipStore", "ipAdd"}
  BY DEF Windowed, Answering, Limited, Added, valkeyVars
<1>2. k = "email"
  BY <1>1 DEF Added, AddPc, Limiters
<1>3. /\ op' = [op EXCEPT ![t] = r] /\ now' = now /\ counter' = counter
      /\ r.pc = "select" /\ op[t].pc = "emailAdd"
      /\ passed' = [passed EXCEPT ![k] = Append(passed[k], op[t].at)]
  BY <1>2 DEF Added, AddPc
<1>4. \A u \in Threads : op'[u].pc \notin {"ipStore", "ipAdd"}
  <2>1. op' = [u \in Threads |-> IF u = t THEN r ELSE op[u]]
    BY <1>3 DEF OpsOK
  <2>. QED
    BY <1>1, <1>3, <2>1
<1>5. ASSUME NEW j \in Limiters, j # k PROVE Limited(j)'
  <2>1. passed'[j] = passed[j] /\ counter'[j] = counter[j]
    BY <1>3, <1>5 DEF Typed
  <2>2. r.pc \notin HeldBy[j]
    BY <1>3 DEF HeldBy, Limiters
  <2>. QED
    BY <1>1, <1>3, <2>1, <2>2, MovedLimited
<1>6. Limited(k)'
  <2>1. passed'[k] = Append(passed[k], op[t].at) /\ counter'[k] = counter[k]
    BY <1>3 DEF Typed
  <2>2. passed[k] \in Seq(Nat) /\ op[t].at \in Nat /\ now \in Nat
    BY LimitFacts DEF Typed, RequestOK
  <2>3. r.pc \notin HeldBy[k] /\ op[t].pc \in HeldBy[k]
    BY <1>2, <1>3 DEF HeldBy
  <2>4. \A A \in SUBSET Nat :
          Tokens(Append(passed[k], op[t].at), op', HeldBy[k])[A] <= Tokens(passed[k], op, HeldBy[k])[A]
    BY <1>3, <2>2, <2>3, TokensAdded
  <2>5. now <= now'
    BY <1>3, <2>2
  <2>. QED
    BY <1>1, <2>1, <2>4, <2>5, KeptLimited
<1>7. \A j \in Limiters : Limited(j)'
  BY <1>5, <1>6
<1>. QED
  BY <1>1, <1>4, <1>7 DEF Windowed, Limited

LEMMA OutsideWindowed ==
    ASSUME Typed, Typed', Windowed, Outside
    PROVE  Windowed'
<1>. SUFFICES ASSUME Answering' PROVE Windowed'
  BY DEF Windowed, Answering
<1>1. connected /\ outages = 0 /\ outages' = outages /\ (valkey' = valkey \/ ~valkey)
  BY DEF Outside, Answering, Typed
<1>2. /\ valkey /\ valkey' /\ \A j \in Limiters : Limited(j)
      /\ \A u \in Threads : op'[u].pc \notin {"ipStore", "ipAdd"}
  BY <1>1 DEF Windowed, Limited, Outside
<1>3. now <= now'
  BY DEF Outside, Typed, Times
<1>4. \A j \in Limiters : Limited(j)'
  <2>. SUFFICES ASSUME NEW j \in Limiters PROVE Limited(j)'
    OBVIOUS
  <2>1. op' = op /\ passed' = passed /\ counter' = counter
    BY DEF Outside, limitVars
  <2>2. \A A \in SUBSET Nat : Tokens(passed[j], op, HeldBy[j])[A] \in Nat
    BY LimitFacts DEF Measure
  <2>3. \A A \in SUBSET Nat : Tokens(passed'[j], op', HeldBy[j])[A] <= Tokens(passed[j], op, HeldBy[j])[A]
    BY <2>1, <2>2
  <2>. QED
    BY <1>2, <1>3, <2>1, <2>3, KeptLimited
<1>. QED
  BY <1>2, <1>4 DEF Windowed, Limited

LEMMA WindowedStep ==
    ASSUME Inv, Typed, Typed', Windowed, Outside \/ \E t \in Threads : \E r : ThreadStep(t, r)
    PROVE  Windowed'
<1>1. ASSUME NEW t \in Threads, NEW r, ThreadStep(t, r) PROVE Windowed'
  <2>. OpsOK
    BY DEF Inv
  <2>1. CASE Arrived(t, r)
    <3>1. CASE Checked(t, r, "ip")
      BY <2>1, <3>1, CheckedWindowed DEF Arrived, Limiters
    <3>2. CASE op' = [op EXCEPT ![t] = r] /\ r.pc = "select" /\ UNCHANGED <<now, made, valkeyVars, limitVars>>
      <4>1. \A k \in Limiters : passed'[k] = passed[k] /\ r.pc \notin HeldBy[k]
        BY <3>2 DEF limitVars, HeldBy, Limiters
      <4>. QED
        BY <3>2, <4>1, OtherWindowed DEF limitVars
    <3>. QED
      BY <2>1, <3>1, <3>2 DEF Arrived
  <2>2. CASE EmailChecked(t, r)
    BY <2>2, CheckedWindowed DEF EmailChecked, Limiters
  <2>3. CASE Decided(t, r)
    <3>1. \A k \in Limiters : passed'[k] = passed[k] /\ r.pc \notin HeldBy[k]
      BY <2>3 DEF Decided, limitVars, HeldBy, Limiters
    <3>. QED
      BY <2>3, <3>1, OtherWindowed DEF Decided, limitVars
  <2>4. ASSUME NEW k \in Limiters, Stored(t, r, k) PROVE Windowed'
    <3>1. CASE Answering
      <4>1. op[t].pc = "emailStore"
        BY <2>4, <3>1 DEF Stored, StorePc, Limiters, Windowed, Answering
      <4>2. k = "email"
        BY <2>4, <4>1 DEF Stored, StorePc, Limiters
      <4>3. r.pc = "idle" \/ (r.pc = "emailAdd" /\ r.at = op[t].at)
        BY <2>4, <4>2 DEF Stored, AddPc
      <4>4. \A j \in Limiters : passed'[j] = passed[j] /\ (r.pc \in HeldBy[j] => op[t].pc \in HeldBy[j] /\ r.at = op[t].at)
        BY <2>4, <4>1, <4>3 DEF Stored, HeldBy, Limiters
      <4>. QED
        BY <2>4, <4>3, <4>4, OtherWindowed DEF Stored
    <3>2. CASE ~Answering
      BY <2>4, <3>2 DEF Stored, valkeyVars, Windowed, Answering
    <3>. QED
      BY <3>1, <3>2
  <2>. QED
    BY <1>1, <2>1, <2>2, <2>3, <2>4, AddedWindowed DEF ThreadStep
<1>. QED
  BY <1>1, OutsideWindowed

LEMMA InitWindowed == Init => Windowed
<1>. SUFFICES ASSUME Init PROVE Windowed
  OBVIOUS
<1>1. \A t \in Threads : op[t].pc = "idle"
  BY NoOpRequest DEF Init
<1>2. connected => valkey
  BY Zenon DEF Init
<1>3. ASSUME NEW k \in Limiters PROVE Limited(k)
  <2>. DEFINE N == Tokens(passed[k], op, HeldBy[k])
  <2>1. Max[k] \in Nat /\ Window[k] \in Nat
    BY AccountsAssumption
  <2>2. passed[k] = <<>> /\ counter[k] = [count |-> 0, until |-> 0] /\ now = 0
    BY DEF Init
  <2>3. \A A \in SUBSET Nat : N[A] = 0
    <3>. SUFFICES ASSUME NEW A \in SUBSET Nat PROVE N[A] = 0
      OBVIOUS
    <3>1. Let(passed[k], A) = {}
      BY <2>2 DEF Let
    <3>2. Held(op, HeldBy[k], A) = {}
      BY <1>1 DEF Held, HeldBy, Limiters
    <3>3. N[A] = Cardinality(Let(passed[k], A)) + Cardinality(Held(op, HeldBy[k], A))
      BY DEF Tokens
    <3>. QED
      BY <3>1, <3>2, <3>3, FS_EmptySet
  <2>. HIDE DEF N
  <2>4. Chain(N, 0, 0, 0, Max[k], Window[k])
    BY <2>1, <2>3, SpanFacts DEF Chain
  <2>5. N[Reaching(0, Window[k])] = 0 /\ \A u \in Nat : N[Span(u, Window[k])] <= Max[k]
    BY <2>1, <2>3, SpanFacts
  <2>6. Under(N, [count |-> 0, until |-> 0], 0, Max[k], Window[k])
    BY <2>1, <2>4, <2>5 DEF Under
  <2>. QED
    BY <2>2, <2>6 DEF Limited, N
<1>. QED
  BY <1>1, <1>2, <1>3 DEF Windowed, Limited

LEMMA WindowedBounds == Sound /\ Windowed => WindowBound
<1>. SUFFICES ASSUME Typed, Windowed, Answering, NEW k \in Limiters, NEW u \in Times
              PROVE  Cardinality({i \in 1..Len(passed[k]) : passed[k][i] \in u..(u + Window[k] - 1)}) <= Max[k]
  BY DEF Sound, WindowBound, Answering
<1>. DEFINE A == u..(u + Window[k] - 1)
            N == Tokens(passed[k], op, HeldBy[k])
<1>1. u \in Nat /\ Window[k] \in Nat \ {0} /\ Max[k] \in Nat /\ passed[k] \in Seq(Nat)
  BY LimitFacts DEF Times
<1>2. Under(N, counter[k], now, Max[k], Window[k])
  BY DEF Windowed, Answering
<1>3. A = Span(u, Window[k]) /\ A \in SUBSET Nat
  BY <1>1 DEF Span
<1>. HIDE DEF A
<1>4. N[A] <= Max[k]
  BY <1>1, <1>2, <1>3 DEF Under
<1>5. N[A] = Cardinality(Let(passed[k], A)) + Cardinality(Held(op, HeldBy[k], A))
  BY <1>3 DEF Tokens
<1>6. Cardinality(Let(passed[k], A)) \in Nat /\ Cardinality(Held(op, HeldBy[k], A)) \in Nat
  BY <1>1, LetFinite, HeldFinite
<1>7. Cardinality(Let(passed[k], A)) <= Max[k]
  BY <1>1, <1>4, <1>5, <1>6
<1>. QED
  BY <1>7 DEF Let, A

\* WindowBound: as long as Valkey answers, neither limiter lets more than Max
\* requests through in any window, wherever it begins: the counter, extended
\* by every request, expires only when a whole window has passed without one.
THEOREM WithinLimits == Spec => []WindowBound
<1>1. Init => Sound /\ Windowed
  BY InitSound, InitWindowed
<1>2. Sound /\ Windowed /\ [Next]_vars => (Sound /\ Windowed)'
  <2>. SUFFICES ASSUME Sound, Windowed, [Next]_vars PROVE (Sound /\ Windowed)'
    OBVIOUS
  <2>1. Sound' /\ Inv /\ Typed /\ Typed'
    BY SoundStep DEF Sound
  <2>2. Outside \/ \E t \in Threads : \E r : ThreadStep(t, r)
    BY <2>1, StepCases
  <2>. QED
    BY <2>1, <2>2, WindowedStep
<1>. QED
  BY <1>1, <1>2, WindowedBounds, PTL DEF Spec
=============================================================================
