------------------------------ MODULE Accounts ------------------------------
(***************************************************************************)
(* An account and the requests about it: registration, verification,      *)
(* login, change and reset of the password (auth.py, routes/auth.py), and  *)
(* the rate limits in front of them (middleware.py, valkey_util.py).       *)
(*                                                                         *)
(* The server handles requests in threads.  A request reads the row of the *)
(* users table, decides, hashes the password and then writes: in between   *)
(* other threads run.  One email address and one client address are        *)
(* enough, since nothing relates two of either.  Codes are numbered in the *)
(* order they are made.                                                    *)
(***************************************************************************)
EXTENDS Naturals, Sequences, FiniteSets

CONSTANTS Threads,
          Passwords,
          Max,         \* requests per window, by limiter: RATE_LIMIT_MAX, EMAIL_RATE_LIMIT_MAX
          Window,      \* and how long the window is
          CodeLife,    \* how long a reset code is good
          MaxTime,     \* bound on the clock
          MaxRequests, \* bound on the requests
          MaxOutages,  \* bound on the outages of Valkey
          None         \* no row, no code, no password

Limiters == {"ip", "email"}
Kinds == {"register", "verify", "resend", "login", "logout", "change", "request", "confirm"}
Times == 0..MaxTime

\* Rows of the users table: password, is_verified, the verification code, the
\* reset code and when that expires.
Users == [pw : Passwords, verified : BOOLEAN, vcode : Nat \cup {None},
          rcode : Nat \cup {None}, until : Nat \cup {None}]

ASSUME AccountsAssumption ==
    /\ IsFiniteSet(Threads) /\ Threads # {}
    /\ Max \in [Limiters -> Nat \ {0}] /\ Window \in [Limiters -> Nat \ {0}]
    /\ {CodeLife, MaxTime, MaxRequests, MaxOutages} \subseteq Nat
    /\ None \notin Passwords \cup Nat \cup Users

VARIABLES
    now,       \* the time
    requests,  \* requests so far
    op,        \* op[t]: the request thread t handles
    session,   \* the browser has the cookie of a login
    user,      \* the row, or None
    made,      \* codes made so far
    mailed,    \* codes that reached the mailbox
    spent,     \* reset codes in the order they were used
    joined,    \* registrations answered with success
    connected, \* get_valkey found Valkey when it was first called
    valkey,    \* Valkey answers
    outages,   \* how often it has stopped
    counter,   \* counter[k]: its counter of limiter k
    store,     \* store[k]: times in the in-memory limiter
    passed     \* passed[k]: times of the requests limiter k has let through

vars == <<now, requests, op, session, user, made, mailed, spent, joined,
          connected, valkey, outages, counter, store, passed>>
accountVars == <<session, user, made, mailed, spent, joined>>
valkeyVars == <<connected, valkey, outages>>
limitVars == <<counter, store, passed>>

NoOp == [pc |-> "idle", kind |-> "login", pw |-> None, new |-> None, code |-> None, at |-> 0, pruned |-> <<>>]
Finish(t) == op' = [op EXCEPT ![t] = NoOp]

-----------------------------------------------------------------------------
(* Rate limits                                                             *)

\* Request o of thread t is behind limiter k: a reset has one more to pass.
Pass(t, o, k, time) ==
    /\ op' = [op EXCEPT ![t] = [o EXCEPT !.pc = IF k = "ip" /\ o.kind = "request" THEN "email" ELSE "select",
                                         !.at = 0, !.pruned = <<>>]]
    /\ passed' = [passed EXCEPT ![k] = Append(@, time)]

\* check_rate_limit: INCR ...
Count(k) == IF counter[k].until > now THEN counter[k].count + 1 ELSE 1

\* Mutant: EXPIRE only with the first request of a window.
IncrFixed(k) ==
    counter' = [counter EXCEPT ![k] =
                   [count |-> Count(k), until |-> IF @.until > now THEN @.until ELSE now + Window[k]]]

\* ... and EXPIRE, anew with every request.
Incr(k) == counter' = [counter EXCEPT ![k] = [count |-> Count(k), until |-> now + Window[k]]]

StorePc == [ip |-> "ipStore", email |-> "emailStore"]
AddPc == [ip |-> "ipAdd", email |-> "emailAdd"]

\* The times of s that limiter k still counts.
Live(s, k) ==
    LET kept[n \in 0..Len(s)] ==
          IF n = 0 THEN <<>>
          ELSE IF s[n] + Window[k] > now THEN Append(kept[n - 1], s[n])
          ELSE kept[n - 1]
    IN  kept[Len(s)]

\* InMemoryRateLimiter.check, without a lock: read and prune ...
MemRead(t, o, k) ==
    /\ op' = [op EXCEPT ![t] = [o EXCEPT !.pc = StorePc[k], !.at = now, !.pruned = Live(store[k], k)]]
    /\ UNCHANGED passed

\* _check_ip_rate_limit and email_rate_limit: the counter of Valkey when
\* there is a client.  A request for which Valkey does not answer counts as
\* within the limit.  The limit on the address also asks the in-memory
\* limiter, the limit on the client only when there never was a Valkey.
CheckLimit(t, o, k) ==
    /\ IF connected /\ valkey THEN Incr(k) ELSE UNCHANGED counter
    /\ \/ /\ connected /\ valkey /\ Count(k) > Max[k]
          /\ Finish(t) /\ UNCHANGED passed
       \/ /\ connected /\ (valkey => Count(k) <= Max[k])
          /\ IF k = "ip" THEN Pass(t, o, k, now) ELSE MemRead(t, o, k)
       \/ ~connected /\ MemRead(t, o, k)
    /\ UNCHANGED <<now, accountVars, valkeyVars, store>>

\* A request arrives, and rate_limit looks at it.  Logging out and changing
\* the password have no limit; changing the password needs a session.
Arrive(t) ==
    /\ op[t].pc = "idle" /\ requests < MaxRequests
    /\ requests' = requests + 1
    /\ \E kind \in Kinds, pw, new \in Passwords \cup {None}, code \in mailed \cup {None} :
          LET o == [pc |-> "select", kind |-> kind, pw |-> pw, new |-> new, code |-> code,
                    at |-> 0, pruned |-> <<>>]
          IN  /\ pw # None <=> kind \in {"register", "login", "change"}
              /\ new # None <=> kind \in {"change", "confirm"}
              /\ code # None => kind \in {"verify", "confirm"}
              /\ kind = "change" => session
              /\ IF kind \in {"logout", "change"}
                   THEN /\ op' = [op EXCEPT ![t] = o]
                        /\ UNCHANGED <<now, accountVars, valkeyVars, limitVars>>
                   ELSE CheckLimit(t, o, "ip")

\* auth_reset_password asks email_rate_limit as well.
CheckEmail(t) ==
    /\ op[t].pc = "email"
    /\ CheckLimit(t, op[t], "email")
    /\ UNCHANGED requests

\* ... then store what is left and look how much it is ...
MemStore(t, k) ==
    /\ op[t].pc = StorePc[k]
    /\ store' = [store EXCEPT ![k] = op[t].pruned]
    /\ IF Len(op[t].pruned) >= Max[k] THEN Finish(t) ELSE op' = [op EXCEPT ![t].pc = AddPc[k]]
    /\ UNCHANGED <<now, requests, accountVars, valkeyVars, counter, passed>>

\* ... and append.
MemAdd(t, k) ==
    /\ op[t].pc = AddPc[k]
    /\ store' = [store EXCEPT ![k] = Append(@, op[t].at)]
    /\ Pass(t, op[t], k, op[t].at)
    /\ UNCHANGED <<now, requests, accountVars, valkeyVars, counter>>

-----------------------------------------------------------------------------
(* UserManager                                                             *)

\* What the request finds in the row lets it go on.
Accepts(o) ==
    CASE o.kind = "register" -> user = None
      [] o.kind = "verify"   -> user # None /\ ~user.verified /\ user.vcode = o.code
      [] o.kind = "resend"   -> user # None /\ ~user.verified
      [] o.kind = "login"    -> user # None /\ user.pw = o.pw /\ user.verified
      [] o.kind = "logout"   -> TRUE
      [] o.kind = "change"   -> user # None /\ user.pw = o.pw
      [] o.kind = "request"  -> user # None
      [] o.kind = "confirm"  -> /\ user # None /\ user.rcode # None
                                /\ now <= user.until /\ user.rcode = o.code

Select(t) ==
    /\ op[t].pc = "select"
    /\ IF Accepts(op[t]) THEN op' = [op EXCEPT ![t].pc = "write"] ELSE Finish(t)
    /\ UNCHANGED <<now, requests, accountVars, valkeyVars, limitVars>>

Writes(t, kind) ==
    /\ op[t].pc = "write" /\ op[t].kind = kind
    /\ Finish(t)
    /\ UNCHANGED <<now, requests, valkeyVars, limitVars>>

\* A code and its mail, which may not go out.
MakeCode ==
    /\ made' = made + 1
    /\ mailed' \in {mailed, mailed \cup {made + 1}}

\* Mutant: INSERT OR REPLACE.
InsertReplace(t) ==
    /\ Writes(t, "register")
    /\ MakeCode
    /\ user' = [pw |-> op[t].pw, verified |-> FALSE, vcode |-> made + 1, rcode |-> None, until |-> None]
    /\ joined' = joined + 1
    /\ UNCHANGED <<session, spent>>

\* register: an address is in the table once, so the second of two INSERTs
\* raises an exception.
Insert(t) ==
    /\ Writes(t, "register")
    /\ IF user = None
         THEN /\ MakeCode
              /\ user' = [pw |-> op[t].pw, verified |-> FALSE, vcode |-> made + 1, rcode |-> None, until |-> None]
              /\ joined' = joined + 1
         ELSE UNCHANGED <<made, mailed, user, joined>>
    /\ UNCHANGED <<session, spent>>

\* verify.
Verify(t) ==
    /\ Writes(t, "verify")
    /\ user' = [user EXCEPT !.verified = TRUE, !.vcode = None]
    /\ UNCHANGED <<session, made, mailed, spent, joined>>

\* resend_code.
Resend(t) ==
    /\ Writes(t, "resend")
    /\ MakeCode
    /\ user' = [user EXCEPT !.vcode = made + 1]
    /\ UNCHANGED <<session, spent, joined>>

\* auth_login and auth_logout.
Log(t) ==
    /\ \/ Writes(t, "login") /\ session' = TRUE
       \/ Writes(t, "logout") /\ session' = FALSE
    /\ UNCHANGED <<user, made, mailed, spent, joined>>

\* change_password.
Change(t) ==
    /\ Writes(t, "change")
    /\ user' = [user EXCEPT !.pw = op[t].new]
    /\ UNCHANGED <<session, made, mailed, spent, joined>>

\* request_reset.
RequestReset(t) ==
    /\ Writes(t, "request")
    /\ MakeCode
    /\ user' = [user EXCEPT !.rcode = made + 1, !.until = now + CodeLife]
    /\ UNCHANGED <<session, spent, joined>>

\* Mutant: the expiry stays.
ResetKeepExpiry(t) ==
    /\ Writes(t, "confirm")
    /\ user' = [user EXCEPT !.pw = op[t].new, !.rcode = None]
    /\ spent' = Append(spent, op[t].code)
    /\ UNCHANGED <<session, made, mailed, joined>>

\* Mutant: the code stays until it expires.
ResetKeepCode(t) ==
    /\ Writes(t, "confirm")
    /\ user' = [user EXCEPT !.pw = op[t].new]
    /\ spent' = Append(spent, op[t].code)
    /\ UNCHANGED <<session, made, mailed, joined>>

\* reset_password.
Reset(t) ==
    /\ Writes(t, "confirm")
    /\ user' = [user EXCEPT !.pw = op[t].new, !.rcode = None, !.until = None]
    /\ spent' = Append(spent, op[t].code)
    /\ UNCHANGED <<session, made, mailed, joined>>

\* Time passes; Valkey stops answering and comes back.
Tick ==
    /\ now < MaxTime /\ now' = now + 1
    /\ UNCHANGED <<requests, op, accountVars, valkeyVars, limitVars>>

Outage ==
    /\ connected
    /\ \/ valkey /\ outages < MaxOutages /\ outages' = outages + 1
       \/ ~valkey /\ UNCHANGED outages
    /\ valkey' = ~valkey
    /\ UNCHANGED <<now, requests, op, accountVars, connected, limitVars>>

-----------------------------------------------------------------------------
Init ==
    /\ now = 0 /\ requests = 0 /\ op = [t \in Threads |-> NoOp]
    /\ session = FALSE /\ user = None /\ made = 0 /\ mailed = {} /\ spent = <<>> /\ joined = 0
    /\ connected \in BOOLEAN /\ valkey = connected /\ outages = 0
    /\ counter = [k \in Limiters |-> [count |-> 0, until |-> 0]]
    /\ store = [k \in Limiters |-> <<>>] /\ passed = [k \in Limiters |-> <<>>]

Next ==
    \/ \E t \in Threads :
          \/ Arrive(t) \/ CheckEmail(t) \/ Select(t)
          \/ Insert(t) \/ Verify(t) \/ Resend(t) \/ Log(t)
          \/ Change(t) \/ RequestReset(t) \/ Reset(t)
          \/ \E k \in Limiters : MemStore(t, k) \/ MemAdd(t, k)
    \/ Tick \/ Outage

Spec == Init /\ [][Next]_vars

-----------------------------------------------------------------------------
(* Properties                                                              *)

\* Every variable stays in its set, and the two columns of a reset code are
\* set and cleared together.
TypeOK ==
    /\ now \in Times /\ requests \in 0..MaxRequests /\ made \in 0..MaxRequests
    /\ mailed \subseteq 1..made /\ joined \in Nat
    /\ {session, connected, valkey} \subseteq BOOLEAN /\ outages \in 0..MaxOutages
    /\ user # None =>
          /\ user \in Users
          /\ user.vcode \in (1..made) \cup {None} /\ user.rcode \in (1..made) \cup {None}
          /\ user.until \in Times \cup {None} \cup {u + CodeLife : u \in Times}
          /\ user.rcode = None <=> user.until = None
    /\ \A k \in Limiters : counter[k].count \in 0..MaxRequests /\ Len(store[k]) <= requests

\* However many threads register the address at a time, one of them is told
\* it succeeded, and a session only exists for an address whose owner has
\* verified it: of register, verify, login and the resets none undoes that.
OneVerifiedOwner == joined <= 1 /\ (session => user # None /\ user.verified)

\* A reset code that has set a password is never again the code of the row,
\* in whatever order requests for codes and resets come.
SpentCodeDead == user # None => \A i \in 1..Len(spent) : user.rcode # spent[i]

\* As long as Valkey answers, a limiter lets at most Max requests through in
\* any window of time, wherever the window begins.
WindowBound ==
    connected /\ outages = 0 =>
        \A k \in Limiters, u \in Times :
           Cardinality({i \in 1..Len(passed[k]) : passed[k][i] \in u..(u + Window[k] - 1)}) <= Max[k]

\* The same without the condition on Valkey: "Rate limiter: uses Redis when
\* available, in-memory fallback otherwise" (middleware.py:50).
WindowBoundAlways ==
    \A k \in Limiters, u \in Times :
       Cardinality({i \in 1..Len(passed[k]) : passed[k][i] \in u..(u + Window[k] - 1)}) <= Max[k]

\* check_rate_limit says "fixed-window counter" and "Max requests per
\* window": a request is refused only when Max others came in a window.
RefusedOverLimit ==
    [][requests' > requests /\ op' = op =>
          Cardinality({i \in 1..Len(passed["ip"]) : passed["ip"][i] + Window["ip"] > now}) >= Max["ip"]]_vars

\* A reset code sets one password: reset_password clears it with the write.
ResetOnce == \A i, j \in 1..Len(spent) : spent[i] = spent[j] => i = j

\* The password a change replaces is the one the request has shown.
ChangeFromCurrent ==
    [][\A t \in Threads : op[t].pc = "write" /\ op[t].kind = "change" /\ op'[t] # op[t] => user.pw = op[t].pw]_vars
=============================================================================
