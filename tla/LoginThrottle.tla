---------------------------- MODULE LoginThrottle ----------------------------
(***************************************************************************)
(* The per-address throttle of login attempts (src/webcaldav/ratelimit.py) *)
(* and the login requests that go through it (routers/auth.py).  The clock *)
(* has ticks smaller than a second, since the seconds told to a refused    *)
(* client are rounded.  Addresses are counted separately.                  *)
(***************************************************************************)
EXTENDS Integers, FiniteSets

CONSTANTS Ips, Requests,
          None,         \* no request under way, nothing promised
          MaxAttempts,  \* of the configuration; 0 switches the throttle off
          Window,       \* of the configuration, in seconds
          Second,       \* ticks in a second
          Horizon,      \* bound: the last instant
          MaxMade       \* bound: attempts made

ASSUME ThrottleAssumption ==
  /\ MaxAttempts \in Nat /\ Window \in Nat \ {0} /\ Second \in Nat \ {0}
  /\ None \notin Int /\ None \notin Ips

VARIABLES now,
          attempts,     \* the recorded attempts of each address
          flight,       \* the address of each login whose password is being checked
          made,         \* attempts let through so far, which tells apart those of one instant
          promise,      \* observed: when an address was last told it may retry
          admitted      \* observed: attempts let through since its last successful login

vars == <<now, attempts, flight, made, promise, admitted>>

Attempt == [at : Int, nr : Int]

Init ==
  /\ now = 0 /\ made = 0
  /\ attempts = [ip \in Ips |-> {}]
  /\ flight = [q \in Requests |-> None]
  /\ promise = [ip \in Ips |-> None]
  /\ admitted = [ip \in Ips |-> {}]

-----------------------------------------------------------------------------

Enabled == MaxAttempts > 0

Span == Window * Second

(* What pruning keeps of a list of attempts.                               *)
Recent(S) == {a \in S : now - a.at < Span}

Oldest(S) == CHOOSE a \in S : \A b \in S : a.at <= b.at

(* Mutant: the seconds are rounded down.                                   *)
RetryAfter_Down(S) ==
  LET left == (Span - (now - Oldest(S).at)) \div Second
  IN  IF left < 1 THEN 1 ELSE left

(* Mutant: three seconds too many.                                          *)
RetryAfter_Full(S) ==
  LET left == (Span - (now - Oldest(S).at)) \div Second + 3
  IN  IF left < 1 THEN 1 ELSE left

(* Whole seconds until the oldest of the recent attempts leaves the window.*)
RetryAfter(S) ==
  LET left == (Span - (now - Oldest(S).at)) \div Second + 1
  IN  IF left < 1 THEN 1 ELSE left

Admits(ip) == ~Enabled \/ Cardinality(Recent(attempts[ip])) < MaxAttempts

(* Mutant: the record replaces the address's list.                         *)
LetThrough_Overwrites(q, ip) ==
  /\ flight[q] = None /\ made < MaxMade
  /\ Admits(ip)
  /\ flight' = [flight EXCEPT ![q] = ip]
  /\ made' = made + 1
  /\ LET a == [at |-> now, nr |-> made]
     IN  /\ attempts' = [attempts EXCEPT ![ip] = {a}]
         /\ admitted' = [admitted EXCEPT ![ip] = @ \cup {a}]
  /\ promise' = [promise EXCEPT ![ip] = None]
  /\ UNCHANGED now

(* A login is let through: checked and recorded in one go, since nothing   *)
(* is awaited between the two, and then its password is looked at.         *)
LetThrough(q, ip) ==
  /\ flight[q] = None /\ made < MaxMade
  /\ Admits(ip)
  /\ flight' = [flight EXCEPT ![q] = ip]
  /\ made' = made + 1
  /\ LET a == [at |-> now, nr |-> made]
     IN  /\ attempts' = IF Enabled
                        THEN [attempts EXCEPT ![ip] = Recent(@) \cup {a}]
                        ELSE attempts
         /\ admitted' = [admitted EXCEPT ![ip] = @ \cup {a}]
  /\ promise' = [promise EXCEPT ![ip] = None]
  /\ UNCHANGED now

(* A refused login is answered 429 with Retry-After and is not recorded.   *)
Refuse(q, ip) ==
  /\ flight[q] = None
  /\ ~Admits(ip)
  /\ attempts' = [attempts EXCEPT ![ip] = Recent(@)]
  /\ promise' = [promise EXCEPT ![ip] = now + RetryAfter(Recent(attempts[ip])) * Second]
  /\ UNCHANGED <<now, flight, made, admitted>>

(* Answered 401: no such user, a wrong password, or a data key that does   *)
(* not open.                                                               *)
WrongPassword(q) ==
  /\ flight[q] # None
  /\ flight' = [flight EXCEPT ![q] = None]
  /\ UNCHANGED <<now, attempts, made, promise, admitted>>

(* Mutant: the address is left with an empty entry.                        *)
LogIn_Hole(q) ==
  /\ flight[q] # None
  /\ flight' = [flight EXCEPT ![q] = None]
  /\ attempts' = [attempts EXCEPT ![flight[q]] = {None}]
  /\ admitted' = [admitted EXCEPT ![flight[q]] = {}]
  /\ promise' = [promise EXCEPT ![flight[q]] = None]
  /\ UNCHANGED <<now, made>>

(* A right password forgets the address's attempts, those of other logins  *)
(* still being looked at included.                                         *)
LogIn(q) ==
  /\ flight[q] # None
  /\ flight' = [flight EXCEPT ![q] = None]
  /\ attempts' = [attempts EXCEPT ![flight[q]] = {}]
  /\ admitted' = [admitted EXCEPT ![flight[q]] = {}]
  /\ promise' = [promise EXCEPT ![flight[q]] = None]
  /\ UNCHANGED <<now, made>>

Tick ==
  /\ now < Horizon
  /\ now' = now + 1
  /\ UNCHANGED <<attempts, flight, made, promise, admitted>>

(* The counters are kept in memory only; the requests die with the process.*)
Restart ==
  /\ attempts' = [ip \in Ips |-> {}]
  /\ admitted' = [ip \in Ips |-> {}]
  /\ promise' = [ip \in Ips |-> None]
  /\ flight' = [q \in Requests |-> None]
  /\ UNCHANGED <<now, made>>

Next ==
  \/ \E q \in Requests :
       \/ WrongPassword(q) \/ LogIn(q)
       \/ \E ip \in Ips : LetThrough(q, ip) \/ Refuse(q, ip)
  \/ Tick
  \/ Restart

Spec == Init /\ [][Next]_vars

-----------------------------------------------------------------------------

TypeOK ==
  /\ now \in Int /\ made \in Int
  /\ attempts \in [Ips -> SUBSET Attempt]
  /\ admitted \in [Ips -> SUBSET Attempt]
  /\ flight \in [Requests -> Ips \cup {None}]
  /\ promise \in [Ips -> Int \cup {None}]

InWindow(S, t) == {a \in S : t <= a.at /\ a.at < t + Span}

(* However attempts, refusals and pruning interleave, no window of time of *)
(* the configured length (wherever it starts) holds more than the          *)
(* configured number of attempts of one address since its last successful  *)
(* login (the guard of LoginRateLimiter against repeated key derivations). *)
NeverFlooded ==
  Enabled =>
    \A ip \in Ips : \A a \in admitted[ip] :
      Cardinality(InWindow(admitted[ip], a.at)) <= MaxAttempts

(* The Retry-After told to a refused client is kept: unless another login  *)
(* of its address gets through or succeeds first, an attempt made once the *)
(* seconds have passed is let through.                                     *)
PromiseKept ==
  \A ip \in Ips : promise[ip] # None /\ now >= promise[ip] => Admits(ip)

(* And it is no longer than it has to be: more than a second earlier an    *)
(* attempt is still refused.                                               *)
NoIdleWait ==
  \A ip \in Ips : promise[ip] # None /\ now < promise[ip] - Second => ~Admits(ip)
=============================================================================
