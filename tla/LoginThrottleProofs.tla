------------------------- MODULE LoginThrottleProofs -------------------------
(***************************************************************************)
(* Proofs about LoginThrottle, for any addresses, logins, limits, window   *)
(* and resolution of the clock.                                            *)
(***************************************************************************)
EXTENDS LoginThrottle, FiniteSetTheorems, WellFoundedInduction, TLAPS

-----------------------------------------------------------------------------
(* Arithmetic.                                                             *)

LEMMA LeastNat ==
  ASSUME NEW T, T \subseteq Nat, T # {}
  PROVE  \E x \in T : \A y \in T : x <= y
<1> DEFINE less == OpToRel(<, Nat)
<1>1. IsWellFoundedOn(less, Nat)
  BY NatLessThanWellFounded
<1>2. \A x, y \in Nat : <<y, x>> \in less <=> y < x
  BY DEF OpToRel
<1> HIDE DEF less
<1>3. PICK x \in T : \A y \in T : ~ (<<y, x>> \in less)
  BY <1>1, WFMin
<1>4. ASSUME NEW y \in T PROVE x <= y
  <2>1. x \in Nat /\ y \in Nat
    OBVIOUS
  <2>2. ~ (y < x)
    BY <2>1, <1>2, <1>3
  <2> QED
    BY <2>1, <2>2
<1> QED
  BY <1>4

(* Attempts that are all later than some instant have an oldest.           *)
LEMMA OldestSpec ==
  ASSUME NEW S \in SUBSET Attempt, S # {}, NEW t \in Int, \A a \in S : t <= a.at
  PROVE  Oldest(S) \in S /\ \A b \in S : Oldest(S).at <= b.at
<1> DEFINE T == {a.at - t : a \in S}
<1>0. \A a \in S : a.at \in Int
  BY DEF Attempt
<1>1. T \subseteq Nat /\ T # {}
  BY <1>0
<1>2. \A a \in S : a.at - t \in T
  OBVIOUS
<1>3. \A x \in T : \E a \in S : x = a.at - t
  OBVIOUS
<1> HIDE DEF T
<1>4. PICK x \in T : \A y \in T : x <= y
  BY <1>1, LeastNat
<1>5. PICK a \in S : x = a.at - t
  BY <1>3
<1>6. \A b \in S : a.at <= b.at
  <2> TAKE b \in S
  <2>1. x <= b.at - t
    BY <1>2, <1>4
  <2> QED
    BY <1>0, <1>5, <2>1
<1> QED
  BY <1>5, <1>6 DEF Oldest

LEMMA SpanPositive == Span \in Nat /\ Span > 0
BY ThrottleAssumption DEF Span

(* The whole seconds told are enough, and less than a second too many.     *)
LEMMA SecondsUp ==
  ASSUME NEW x \in Nat, x > 0
  PROVE  LET left == x \div Second + 1
         IN  /\ left \in Nat /\ left >= 1
             /\ left * Second \in Nat
             /\ x < left * Second /\ left * Second <= x + Second
<1>1. Second \in Nat /\ Second > 0
  BY ThrottleAssumption
<1> DEFINE d == x \div Second
<1>2. d \in Nat
  BY <1>1
<1>3. d * Second <= x /\ x < d * Second + Second
  BY <1>1
<1>4. d * Second \in Nat /\ (d + 1) * Second = d * Second + Second
  BY <1>1, <1>2
<1> QED
  BY <1>1, <1>2, <1>3, <1>4

-----------------------------------------------------------------------------
(* The inductive invariant.                                                *)

(* Only finitely many attempts are ever kept.                              *)
Finite == \A ip \in Ips : IsFiniteSet(attempts[ip]) /\ IsFiniteSet(admitted[ip])

(* The list of an address never grows past the limit, and has every recent *)
(* attempt that was let through.                                           *)
Recorded ==
  \A ip \in Ips :
    /\ attempts[ip] \subseteq admitted[ip]
    /\ \A a \in admitted[ip] : a.at <= now
    /\ Enabled => Cardinality(attempts[ip]) <= MaxAttempts
    /\ Enabled => Recent(admitted[ip]) \subseteq attempts[ip]

(* A promise was made with a full list, and is about its oldest attempt.   *)
Promised(ip) ==
  /\ Enabled
  /\ Cardinality(attempts[ip]) = MaxAttempts
  /\ \E a \in attempts[ip] :
       /\ \A b \in attempts[ip] : a.at <= b.at
       /\ a.at + Span < promise[ip]
       /\ promise[ip] <= a.at + Span + Second

PromisesSound == \A ip \in Ips : promise[ip] # None => Promised(ip)

IInv == TypeOK /\ Finite /\ Recorded /\ NeverFlooded /\ PromisesSound

LEMMA InitIInv == Init => IInv
<1> SUFFICES ASSUME Init PROVE IInv
  OBVIOUS
<1>1. TypeOK
  BY DEF Init, TypeOK
<1>2. Finite /\ Recorded
  BY FS_EmptySet, ThrottleAssumption DEF Init, Finite, Recorded, Recent, Enabled
<1>3. NeverFlooded /\ PromisesSound
  BY DEF Init, NeverFlooded, PromisesSound
<1> QED
  BY <1>1, <1>2, <1>3 DEF IInv

(* What the list of an address is made of.                                 *)
LEMMA AttemptFields ==
  ASSUME TypeOK, NEW ip \in Ips
  PROVE  /\ attempts[ip] \in SUBSET Attempt /\ admitted[ip] \in SUBSET Attempt
         /\ \A a \in attempts[ip] \cup admitted[ip] : a.at \in Int
         /\ Recent(attempts[ip]) \subseteq attempts[ip]
         /\ now \in Int
<1>1. attempts[ip] \in SUBSET Attempt /\ admitted[ip] \in SUBSET Attempt
  BY DEF TypeOK
<1> QED
  BY <1>1 DEF Attempt, Recent, TypeOK

(* Letting an attempt through.                                             *)
LEMMA LetThroughKeeps ==
  ASSUME IInv, NEW q \in Requests, NEW ip \in Ips, LetThrough(q, ip)
  PROVE  IInv'
<1> DEFINE a == [at |-> now, nr |-> made]
<1> DEFINE R == Recent(attempts[ip])
<1>0. TypeOK /\ now \in Int /\ made \in Int /\ a \in Attempt /\ now' = now
  BY DEF IInv, TypeOK, LetThrough, Attempt
<1>1. a.at = now
  OBVIOUS
<1>2. attempts[ip] \in SUBSET Attempt /\ admitted[ip] \in SUBSET Attempt /\ R \subseteq attempts[ip]
  BY <1>0, AttemptFields
<1>3. /\ attempts' = IF Enabled THEN [attempts EXCEPT ![ip] = R \cup {a}] ELSE attempts
      /\ admitted' = [admitted EXCEPT ![ip] = admitted[ip] \cup {a}]
      /\ promise' = [promise EXCEPT ![ip] = None]
      /\ flight' = [flight EXCEPT ![q] = ip]
      /\ made' = made + 1
  BY DEF LetThrough
<1>4. /\ attempts \in [Ips -> SUBSET Attempt] /\ admitted \in [Ips -> SUBSET Attempt]
      /\ promise \in [Ips -> Int \cup {None}] /\ flight \in [Requests -> Ips \cup {None}]
  BY <1>0 DEF TypeOK
<1>5. TypeOK'
  BY <1>0, <1>2, <1>3, <1>4 DEF TypeOK
<1>6. /\ admitted'[ip] = admitted[ip] \cup {a}
      /\ attempts'[ip] = IF Enabled THEN R \cup {a} ELSE attempts[ip]
      /\ promise'[ip] = None
      /\ \A i \in Ips \ {ip} : /\ admitted'[i] = admitted[i] /\ attempts'[i] = attempts[i]
                               /\ promise'[i] = promise[i]
  BY <1>3, <1>4
<1>7. IsFiniteSet(attempts[ip]) /\ IsFiniteSet(admitted[ip]) /\ IsFiniteSet(R)
  BY <1>2, FS_Subset DEF IInv, Finite
<1>8. Finite'
  <2>1. IsFiniteSet(R \cup {a}) /\ IsFiniteSet(admitted[ip] \cup {a})
    BY <1>7, FS_AddElement
  <2> QED
    BY <2>1, <1>6, <1>7 DEF IInv, Finite
<1> HIDE DEF a
<1>9. Enabled => /\ Cardinality(R) < MaxAttempts
                 /\ Cardinality(R) \in Nat
                 /\ Cardinality(R \cup {a}) <= MaxAttempts
  <2>1. Enabled => Cardinality(R) < MaxAttempts
    BY DEF LetThrough, Admits
  <2> HIDE DEF R
  <2>2. Cardinality(R) \in Nat
    BY <1>7, FS_CardinalityType
  <2>3. Cardinality(R \cup {a}) = IF a \in R THEN Cardinality(R) ELSE Cardinality(R) + 1
    BY <1>7, FS_AddElement
  <2> QED
    BY <2>1, <2>2, <2>3, ThrottleAssumption
<1>10. Recorded'
  <2> SUFFICES ASSUME NEW i \in Ips
               PROVE  /\ attempts'[i] \subseteq admitted'[i]
                      /\ \A x \in admitted'[i] : x.at <= now'
                      /\ Enabled => Cardinality(attempts'[i]) <= MaxAttempts
                      /\ Enabled => {x \in admitted'[i] : now - x.at < Span} \subseteq attempts'[i]
    BY <1>0 DEF Recorded, Enabled, Recent, Span
  <2>1. CASE i # ip
    BY <2>1, <1>6, <1>0 DEF IInv, Recorded, Recent
  <2>2. CASE i = ip
    <3>1. attempts'[i] \subseteq admitted'[i]
      BY <2>2, <1>2, <1>6 DEF IInv, Recorded
    <3>2. \A x \in admitted'[i] : x.at <= now'
      BY <2>2, <1>0, <1>1, <1>6 DEF IInv, Recorded
    <3>3. Enabled => Cardinality(attempts'[i]) <= MaxAttempts
      BY <2>2, <1>6, <1>9
    <3>4. Enabled => {x \in admitted'[i] : now - x.at < Span} \subseteq attempts'[i]
      BY <2>2, <1>0, <1>6 DEF IInv, Recorded, Recent
    <3> QED
      BY <3>1, <3>2, <3>3, <3>4
  <2> QED
    BY <2>1, <2>2
<1>11. NeverFlooded'
  <2> SUFFICES ASSUME Enabled, NEW i \in Ips, NEW x \in admitted'[i]
               PROVE  Cardinality(InWindow(admitted'[i], x.at)) <= MaxAttempts
    BY DEF NeverFlooded, Enabled, InWindow, Span
  <2>1. CASE i # ip
    BY <2>1, <1>6 DEF IInv, NeverFlooded
  <2>2. CASE i = ip
    <3> DEFINE W == InWindow(admitted[ip], x.at)
    <3>0. x.at \in Int /\ \A y \in admitted[ip] : y.at \in Int
      BY <2>2, <1>0, <1>1, <1>6, AttemptFields
    <3>1. IsFiniteSet(W) /\ W \subseteq admitted[ip]
      BY <1>7, FS_Subset DEF InWindow
    <3>2. InWindow(admitted[ip] \cup {a}, x.at) \subseteq W \cup {a}
      BY DEF InWindow
    <3>3. CASE x.at + Span <= now
      <4>1. InWindow(admitted[ip] \cup {a}, x.at) = W
        BY <1>0, <1>1, <3>0, <3>3, SpanPositive DEF InWindow
      <4>2. x \in admitted[ip]
        BY <1>0, <1>1, <1>6, <2>2, <3>3, SpanPositive
      <4> QED
        BY <4>1, <4>2, <1>6, <2>2 DEF IInv, NeverFlooded
    <3>4. CASE now < x.at + Span
      <4>1. W \subseteq R
        <5> SUFFICES ASSUME NEW y \in W PROVE y \in Recent(admitted[ip])
          BY DEF IInv, Recorded, Recent
        <5> QED
          BY <1>0, <3>0, <3>4, SpanPositive DEF InWindow, Recent
      <4>2. InWindow(admitted[ip] \cup {a}, x.at) \subseteq R \cup {a}
        BY <3>2, <4>1
      <4>3. IsFiniteSet(R \cup {a})
        BY <1>7, FS_AddElement
      <4>4. Cardinality(InWindow(admitted[ip] \cup {a}, x.at)) <= Cardinality(R \cup {a})
        BY <4>2, <4>3, FS_Subset
      <4>5. /\ Cardinality(InWindow(admitted[ip] \cup {a}, x.at)) \in Nat
            /\ Cardinality(R \cup {a}) \in Nat
        BY <4>2, <4>3, FS_Subset, FS_CardinalityType
      <4> QED
        BY <4>4, <4>5, <1>6, <1>9, <2>2, ThrottleAssumption
    <3> QED
      BY <1>0, <3>0, <3>3, <3>4, SpanPositive
  <2> QED
    BY <2>1, <2>2
<1>12. PromisesSound'
  BY <1>6 DEF IInv, PromisesSound, Promised, Enabled
<1> QED
  BY <1>5, <1>8, <1>10, <1>11, <1>12 DEF IInv

(* Refusing one.                                                           *)
LEMMA RefuseKeeps ==
  ASSUME IInv, NEW q \in Requests, NEW ip \in Ips, Refuse(q, ip)
  PROVE  IInv'
<1> DEFINE R == Recent(attempts[ip])
<1>0. TypeOK /\ now \in Int /\ now' = now
  BY DEF IInv, TypeOK, Refuse
<1>1. /\ attempts[ip] \in SUBSET Attempt /\ R \subseteq attempts[ip]
      /\ \A x \in attempts[ip] : x.at \in Int /\ x.at <= now
      /\ IsFiniteSet(attempts[ip]) /\ IsFiniteSet(R)
  BY <1>0, AttemptFields, FS_Subset DEF IInv, Finite, Recorded
<1>2. /\ attempts' = [attempts EXCEPT ![ip] = R]
      /\ promise' = [promise EXCEPT ![ip] = now + RetryAfter(R) * Second]
      /\ UNCHANGED <<now, flight, made, admitted>>
  BY DEF Refuse
<1>3. attempts \in [Ips -> SUBSET Attempt] /\ promise \in [Ips -> Int \cup {None}]
  BY <1>0 DEF TypeOK
<1>4. Enabled /\ ~(Cardinality(R) < MaxAttempts)
  BY DEF Refuse, Admits
<1>5. Cardinality(R) \in Nat /\ Cardinality(R) = MaxAttempts
  BY <1>1, <1>4, FS_Subset, FS_CardinalityType, ThrottleAssumption DEF IInv, Recorded
<1>6. R # {}
  BY <1>4, <1>5, FS_EmptySet, ThrottleAssumption DEF Enabled
<1>7. \A x \in R : now - x.at < Span /\ now - x.at \in Nat
  BY <1>0, <1>1 DEF Recent
<1>8. Oldest(R) \in R /\ \A b \in R : Oldest(R).at <= b.at
  <2>1. R \in SUBSET Attempt /\ now - Span \in Int
    BY <1>0, <1>1, SpanPositive
  <2>2. \A x \in R : now - Span <= x.at
    BY <1>0, <1>1, <1>7, SpanPositive
  <2> HIDE DEF R
  <2> QED
    BY <2>1, <2>2, <1>6, OldestSpec
<1>9. /\ now + RetryAfter(R) * Second \in Int
      /\ Oldest(R).at + Span < now + RetryAfter(R) * Second
      /\ now + RetryAfter(R) * Second <= Oldest(R).at + Span + Second
  <2> DEFINE x == Span - (now - Oldest(R).at)
             left == x \div Second + 1
  <2>1. x \in Nat /\ x > 0 /\ Oldest(R).at \in Int
    BY <1>0, <1>1, <1>7, <1>8, SpanPositive
  <2>2. /\ left \in Nat /\ left >= 1 /\ left * Second \in Nat
        /\ x < left * Second /\ left * Second <= x + Second
    <3> HIDE DEF x
    <3> QED
      BY <2>1, SecondsUp
  <2>3. RetryAfter(R) = left
    BY <2>2 DEF RetryAfter
  <2>4. Second \in Nat /\ Span \in Nat
    BY ThrottleAssumption, SpanPositive
  <2> DEFINE told == left * Second
  <2>5. told \in Nat /\ x < told /\ told <= x + Second
    BY <2>2
  <2> HIDE DEF told
  <2>6. now + told \in Int /\ Oldest(R).at + Span < now + told
        /\ now + told <= Oldest(R).at + Span + Second
    BY <2>1, <2>4, <2>5, <1>0
  <2> QED
    BY <2>3, <2>6 DEF told
<1>10. TypeOK'
  BY <1>0, <1>1, <1>2, <1>3, <1>9 DEF TypeOK
<1>11. /\ attempts'[ip] = R /\ promise'[ip] = now + RetryAfter(R) * Second
       /\ \A i \in Ips \ {ip} : attempts'[i] = attempts[i] /\ promise'[i] = promise[i]
  BY <1>2, <1>3
<1> HIDE DEF R
<1>12. Finite'
  BY <1>1, <1>2, <1>11 DEF IInv, Finite
<1>13. Recorded'
  <2> SUFFICES ASSUME NEW i \in Ips
               PROVE  /\ attempts'[i] \subseteq admitted[i]
                      /\ \A x \in admitted[i] : x.at <= now
                      /\ Enabled => Cardinality(attempts'[i]) <= MaxAttempts
                      /\ Enabled => Recent(admitted[i]) \subseteq attempts'[i]
    BY <1>2 DEF Recorded, Enabled, Recent, Span
  <2>1. CASE i # ip
    BY <2>1, <1>11 DEF IInv, Recorded
  <2>2. CASE i = ip
    BY <2>2, <1>1, <1>5, <1>11, ThrottleAssumption DEF IInv, Recorded, Recent, R
  <2> QED
    BY <2>1, <2>2
<1>14. NeverFlooded'
  BY <1>2 DEF IInv, NeverFlooded, Enabled, InWindow, Span
<1>15. PromisesSound'
  <2> SUFFICES ASSUME NEW i \in Ips, promise'[i] # None PROVE Promised(i)'
    BY DEF PromisesSound
  <2>1. CASE i # ip
    BY <2>1, <1>11 DEF IInv, PromisesSound, Promised, Enabled, Span
  <2>2. CASE i = ip
    BY <2>2, <1>4, <1>5, <1>8, <1>9, <1>11 DEF Promised, Enabled, Span
  <2> QED
    BY <2>1, <2>2
<1> QED
  BY <1>10, <1>12, <1>13, <1>14, <1>15 DEF IInv

(* A right password, and a restart, start from nothing.                    *)
LEMMA LogInKeeps ==
  ASSUME IInv, NEW q \in Requests, LogIn(q)
  PROVE  IInv'
<1> DEFINE ip == flight[q]
<1>0. TypeOK /\ ip \in Ips
  BY DEF IInv, TypeOK, LogIn
<1>1. /\ attempts' = [attempts EXCEPT ![ip] = {}] /\ admitted' = [admitted EXCEPT ![ip] = {}]
      /\ promise' = [promise EXCEPT ![ip] = None] /\ flight' = [flight EXCEPT ![q] = None]
      /\ now' = now /\ made' = made
  BY DEF LogIn
<1>2. TypeOK'
  BY <1>0, <1>1 DEF TypeOK
<1> HIDE DEF ip
<1>3. /\ attempts'[ip] = {} /\ admitted'[ip] = {} /\ promise'[ip] = None
      /\ \A i \in Ips \ {ip} : /\ attempts'[i] = attempts[i] /\ admitted'[i] = admitted[i]
                               /\ promise'[i] = promise[i]
  BY <1>0, <1>1 DEF TypeOK
<1>4. Finite'
  BY <1>3, FS_EmptySet DEF IInv, Finite
<1>5. Recorded'
  <2> SUFFICES ASSUME NEW i \in Ips
               PROVE  /\ attempts'[i] \subseteq admitted'[i]
                      /\ \A x \in admitted'[i] : x.at <= now
                      /\ Enabled => Cardinality(attempts'[i]) <= MaxAttempts
                      /\ Enabled => {x \in admitted'[i] : now - x.at < Span} \subseteq attempts'[i]
    BY <1>1 DEF Recorded, Enabled, Recent, Span
  <2>1. CASE i # ip
    BY <2>1, <1>3 DEF IInv, Recorded, Recent
  <2>2. CASE i = ip
    BY <2>2, <1>3, FS_EmptySet, ThrottleAssumption
  <2> QED
    BY <2>1, <2>2
<1>6. NeverFlooded'
  BY <1>3 DEF IInv, NeverFlooded, Enabled, InWindow, Span
<1>7. PromisesSound'
  BY <1>3 DEF IInv, PromisesSound, Promised, Enabled, Span
<1> QED
  BY <1>2, <1>4, <1>5, <1>6, <1>7 DEF IInv

LEMMA RestartKeeps ==
  ASSUME IInv, Restart
  PROVE  IInv'
<1>1. TypeOK'
  BY DEF IInv, TypeOK, Restart
<1>2. Finite' /\ Recorded'
  BY FS_EmptySet, ThrottleAssumption DEF Restart, Finite, Recorded, Recent, Enabled
<1>3. NeverFlooded' /\ PromisesSound'
  BY DEF Restart, NeverFlooded, PromisesSound
<1> QED
  BY <1>1, <1>2, <1>3 DEF IInv

(* Time passes: less is recent.                                            *)
LEMMA TickKeeps ==
  ASSUME IInv, Tick
  PROVE  IInv'
<1>0. TypeOK /\ now' = now + 1 /\ now \in Int
      /\ UNCHANGED <<attempts, flight, made, promise, admitted>>
  BY DEF IInv, TypeOK, Tick
<1>1. TypeOK'
  BY <1>0 DEF TypeOK
<1>2. Finite'
  BY <1>0 DEF IInv, Finite
<1>3. Recorded'
  <2> SUFFICES ASSUME NEW i \in Ips
               PROVE  /\ attempts[i] \subseteq admitted[i]
                      /\ \A x \in admitted[i] : x.at <= now'
                      /\ Enabled => Cardinality(attempts[i]) <= MaxAttempts
                      /\ Enabled => {x \in admitted[i] : now' - x.at < Span} \subseteq attempts[i]
    BY <1>0 DEF Recorded, Enabled, Recent, Span
  <2>1. \A x \in admitted[i] : x.at \in Int /\ x.at <= now
    BY <1>0, AttemptFields DEF IInv, Recorded
  <2>2. {x \in admitted[i] : now' - x.at < Span} \subseteq Recent(admitted[i])
    BY <1>0, <2>1, SpanPositive DEF Recent
  <2> QED
    BY <1>0, <2>1, <2>2 DEF IInv, Recorded
<1>4. NeverFlooded'
  BY <1>0 DEF IInv, NeverFlooded, Enabled, InWindow, Span
<1>5. PromisesSound'
  BY <1>0 DEF IInv, PromisesSound, Promised, Enabled, Span
<1> QED
  BY <1>1, <1>2, <1>3, <1>4, <1>5 DEF IInv

LEMMA StepIInv == IInv /\ [Next]_vars => IInv'
<1> SUFFICES ASSUME IInv, [Next]_vars PROVE IInv'
  OBVIOUS
<1>1. ASSUME NEW q \in Requests, WrongPassword(q) PROVE IInv'
  <2>1. UNCHANGED <<now, attempts, made, promise, admitted>>
        /\ flight' = [flight EXCEPT ![q] = None]
    BY <1>1 DEF WrongPassword
  <2>2. TypeOK'
    BY <2>1 DEF IInv, TypeOK
  <2>3. Finite' /\ Recorded'
    BY <2>1 DEF IInv, Finite, Recorded, Enabled, Recent, Span
  <2>4. NeverFlooded' /\ PromisesSound'
    BY <2>1 DEF IInv, NeverFlooded, PromisesSound, Promised, Enabled, InWindow, Span
  <2> QED
    BY <2>2, <2>3, <2>4 DEF IInv
<1>2. CASE UNCHANGED vars
  <2>1. TypeOK' /\ Finite' /\ Recorded'
    BY <1>2 DEF IInv, vars, TypeOK, Finite, Recorded, Enabled, Recent, Span
  <2>2. NeverFlooded' /\ PromisesSound'
    BY <1>2 DEF IInv, vars, NeverFlooded, PromisesSound, Promised, Enabled, InWindow, Span
  <2> QED
    BY <2>1, <2>2 DEF IInv
<1> QED
  BY <1>1, <1>2, LetThroughKeeps, RefuseKeeps, LogInKeeps, RestartKeeps, TickKeeps DEF Next

-----------------------------------------------------------------------------
(* The theorems.                                                           *)

LEMMA AlwaysIInv == Spec => []IInv
<1>1. Init => IInv
  BY InitIInv
<1>2. IInv /\ [Next]_vars => IInv'
  BY StepIInv
<1> QED
  BY <1>1, <1>2, PTL DEF Spec

(* No list of attempts is longer than the limit, and none has an attempt   *)
(* of a time to come.                                                      *)
ListsSound ==
  \A ip \in Ips : /\ Enabled => Cardinality(attempts[ip]) <= MaxAttempts
                  /\ \A a \in attempts[ip] : a.at <= now

(* Attempts, requests in flight and promises have their types; and through *)
(* logins, refusals, pruning and restarts no address has more attempts in  *)
(* its list than the limit, nor one in the future                          *)
(* (LoginRateLimiter._attempts).                                           *)
THEOREM ThrottleTypes == Spec => [](TypeOK /\ ListsSound)
<1>1. IInv => TypeOK /\ ListsSound
  <2> SUFFICES ASSUME IInv, NEW ip \in Ips
               PROVE  /\ Enabled => Cardinality(attempts[ip]) <= MaxAttempts
                      /\ \A a \in attempts[ip] : a.at <= now
    BY DEF IInv, ListsSound
  <2>1. attempts[ip] \subseteq admitted[ip] /\ \A a \in admitted[ip] : a.at <= now
    BY DEF IInv, Recorded
  <2>2. Enabled => Cardinality(attempts[ip]) <= MaxAttempts
    BY DEF IInv, Recorded
  <2> QED
    BY <2>1, <2>2
<1> QED
  BY <1>1, AlwaysIInv, PTL

(* No window of the configured length has more attempts of an address than *)
(* the configured number, for any number of logins at a time               *)
(* (LoginRateLimiter in ratelimit.py).                                     *)
THEOREM FloodGuard == Spec => []NeverFlooded
<1>1. IInv => NeverFlooded
  BY DEF IInv
<1> QED
  BY <1>1, AlwaysIInv, PTL

(* A client that comes back when its Retry-After is over is let through    *)
(* (LoginRateLimiter.check).                                               *)
THEOREM PromisesKept == Spec => []PromiseKept
<1>1. IInv => PromiseKept
  <2> SUFFICES ASSUME IInv, NEW ip \in Ips, promise[ip] # None, now >= promise[ip]
               PROVE  Cardinality(Recent(attempts[ip])) < MaxAttempts
    BY DEF PromiseKept, Admits
  <2> DEFINE R == Recent(attempts[ip])
  <2>0. /\ TypeOK /\ promise[ip] \in Int /\ now \in Int
        /\ \A a \in attempts[ip] : a.at \in Int
        /\ R \subseteq attempts[ip] /\ IsFiniteSet(attempts[ip])
    BY AttemptFields DEF IInv, TypeOK, Finite
  <2>1. PICK a \in attempts[ip] : a.at + Span < promise[ip]
    BY DEF IInv, PromisesSound, Promised
  <2>2. Cardinality(attempts[ip]) = MaxAttempts
    BY DEF IInv, PromisesSound, Promised
  <2>3. a \notin R
    BY <2>0, <2>1, SpanPositive DEF Recent
  <2> HIDE DEF R
  <2>4. /\ IsFiniteSet(R) /\ Cardinality(R) \in Nat /\ Cardinality(R) <= MaxAttempts
        /\ Cardinality(R) # MaxAttempts
    BY <2>0, <2>1, <2>2, <2>3, FS_Subset, FS_CardinalityType
  <2> QED
    BY <2>4, ThrottleAssumption DEF R
<1> QED
  BY <1>1, AlwaysIInv, PTL

(* And one that comes back more than a second early is not                 *)
(* (LoginRateLimiter.check).                                               *)
THEOREM NoWaitIsIdle == Spec => []NoIdleWait
<1>1. IInv => NoIdleWait
  <2> SUFFICES ASSUME IInv, NEW ip \in Ips, promise[ip] # None, now < promise[ip] - Second
               PROVE  Enabled /\ ~(Cardinality(Recent(attempts[ip])) < MaxAttempts)
    BY DEF NoIdleWait, Admits
  <2>0. /\ TypeOK /\ promise[ip] \in Int /\ now \in Int
        /\ \A a \in attempts[ip] : a.at \in Int
    BY AttemptFields DEF IInv, TypeOK
  <2>1. PICK a \in attempts[ip] : /\ \A b \in attempts[ip] : a.at <= b.at
                                  /\ promise[ip] <= a.at + Span + Second
    BY DEF IInv, PromisesSound, Promised
  <2>2. Enabled /\ Cardinality(attempts[ip]) = MaxAttempts
    BY DEF IInv, PromisesSound, Promised
  <2>3. \A b \in attempts[ip] : now - b.at < Span
    <3> TAKE b \in attempts[ip]
    <3>1. a.at \in Int /\ b.at \in Int /\ Span \in Nat /\ Second \in Nat /\ a.at <= b.at
      BY <2>0, <2>1, SpanPositive, ThrottleAssumption
    <3> QED
      BY <2>0, <2>1, <3>1
  <2>4. Recent(attempts[ip]) = attempts[ip]
    BY <2>3 DEF Recent
  <2> QED
    BY <2>2, <2>4, ThrottleAssumption
<1> QED
  BY <1>1, AlwaysIInv, PTL
=============================================================================
