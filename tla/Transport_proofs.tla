-------------------------- MODULE Transport_proofs --------------------------
(***************************************************************************)
(* Proofs about ObsTransport, for any number of commands, keys, contents,  *)
(* retries and redirects: types, the bound on attempts, that a put which   *)
(* returned is there, and that the adapter keeps the promise of            *)
(* ObsService.                                                             *)
(***************************************************************************)
EXTENDS ObsTransport, TLAPS

LEMMA AppliedType ==
  ASSUME NEW m \in Requests, NEW b \in [Keys -> Values \cup {Absent}]
  PROVE  Applied(m, b) \in [Keys -> Values \cup {Absent}]
BY TransportAssumption DEF Applied

\* An adapter's method answers one of three things, and a put that is done had
\* a 2xx.
LEMMA OutcomeType ==
  ASSUME NEW m \in Requests, NEW a
  PROVE  /\ Outcome(m.op, a) \in Replies
         /\ m.op = "put" /\ Outcome(m.op, a) = "done" => a = "2xx"
<1>1. m.op \in Ops
  BY TransportAssumption
<1> QED BY <1>1 DEF Ops, Outcome, Replies

\* The attempts of a call are its failures and redirects, and the one under way.
Counts(p) ==
  /\ redirects[p] < MaxRedirect
  /\ tries[p] <= flag[p] + redirects[p] + 1
  /\ pc[p] = "send" => tries[p] <= flag[p] + redirects[p]
CountsOK == \A p \in Procs : Counts(p)

\* A success that is answered took effect.
AckOK == \A p \in Procs :
  /\ answer[p] = "2xx" => did[p]
  /\ pc[p] \in {"idle", "send"} => answer[p] # "2xx"
  /\ pc[p] = "idle" => answer[p] = "none"
  /\ pc[p] = "failed" => answer[p] \in Failures

WireInv == TypeOK /\ CountsOK /\ AckOK

LEMMA InitWire == Init => WireInv
BY TransportAssumption DEF Init, WireInv, TypeOK, PCs, Answers, CountsOK, Counts, AckOK

\* Every step keeps types and counts.
LEMMA NextWire == WireInv /\ [Next]_vars => WireInv'
<1> SUFFICES ASSUME WireInv, [Next]_vars PROVE WireInv'
  OBVIOUS
<1> USE TransportAssumption DEF WireInv, TypeOK, CountsOK, Counts, AckOK, PCs, Answers,
        Failures, Replies
<1>1. ASSUME NEW p \in Procs, NEW m \in Requests, Call(p, m) PROVE WireInv'
  BY <1>1 DEF Call, Present
<1>2. ASSUME NEW p \in Procs, Send(p) PROVE WireInv'
  BY <1>2 DEF Send
<1>3. ASSUME NEW p \in Procs, Lose(p) PROVE WireInv'
  BY <1>3 DEF Lose
<1>4. ASSUME NEW p \in Procs, Receive(p) PROVE WireInv'
  BY <1>4 DEF Receive
<1>5. ASSUME NEW p \in Procs, Fail(p) PROVE WireInv'
  <2> DEFINE f == flag[p] - Redirected(p)
             r == RedirectCount(p)
  <2>1. /\ f \in Int /\ f >= -1 /\ r \in Nat
        /\ f + r = flag[p] + redirects[p]
    BY DEF Redirected, RedirectCount
  <2>2. CASE r >= MaxRedirect \/ Exhausted(f)
    BY <1>5, <2>2 DEF Fail
  <2>3. CASE ~(r >= MaxRedirect \/ Exhausted(f))
    <3>1. /\ r \in 0..MaxRedirect /\ r < MaxRedirect
          /\ f + 1 \in 0..MaxRetry
      BY <2>1, <2>3 DEF Exhausted
    <3>2. /\ pc' = [pc EXCEPT ![p] = "send"]
          /\ flag' = [flag EXCEPT ![p] = f + 1]
          /\ redirects' = [redirects EXCEPT ![p] = r]
          /\ UNCHANGED <<bucket, call, calls, tries, onWire, answer, page, reply, stray,
                         did, alone, steady>>
      BY <1>5, <2>3 DEF Fail
    <3>3. pc[p] = "failed"
      BY <1>5 DEF Fail
    <3> HIDE DEF f, r
    <3>4. TypeOK' /\ AckOK'
      BY <3>1, <3>2, <3>3
    <3>5. tries[p] <= f + 1 + r
      BY <2>1
    <3>6. CountsOK'
      BY <2>1, <3>1, <3>2, <3>5
    <3> QED BY <3>4, <3>6
  <2> QED BY <2>2, <2>3
<1>6. ASSUME NEW p \in Procs, Return(p) PROVE WireInv'
  BY <1>6, OutcomeType DEF Return
<1>7. ASSUME NEW p \in Procs, NEW a \in Answers, Serve(p, a) PROVE WireInv'
  <2>1. pc[p] = "wait" /\ call[p] \in Requests
    BY <1>7 DEF Serve
  <2>2. bucket' \in [Keys -> Values \cup {Absent}]
    BY <1>7, <2>1, AppliedType DEF Serve
  <2>3. FirstPage \subseteq Keys
    BY DEF FirstPage, Present
  <2>4. /\ page' \in [Procs -> SUBSET Keys]
        /\ steady' \in [Procs -> SUBSET Keys]
        /\ did' \in [Procs -> BOOLEAN]
        /\ onWire' \in [Procs -> BOOLEAN]
        /\ answer' \in [Procs -> Answers \cup {"none", "lost"}]
    BY <1>7, <2>3 DEF Serve, StillThere
  <2>5. TypeOK'
    BY <1>7, <2>2, <2>4 DEF Serve
  <2>6. CountsOK'
    BY <1>7 DEF Serve
  <2>7. AckOK'
    BY <1>7, <2>1 DEF Serve
  <2> QED BY <2>5, <2>6, <2>7
<1>8. ASSUME NEW m \in Requests, ServeStray(m) PROVE WireInv'
  BY <1>8, AppliedType DEF ServeStray, StillThere, callVars
<1>9. CASE UNCHANGED vars
  BY <1>9 DEF vars, callVars
<1> HIDE DEF WireInv
<1> QED
  BY <1>1, <1>2, <1>3, <1>4, <1>5, <1>6, <1>7, <1>8, <1>9 DEF Next, Attempt

LEMMA Wired == Spec => []WireInv
BY InitWire, NextWire, PTL DEF Spec

\* The types of ObsTransport, for every instance.
THEOREM TransportTypeCorrect == Spec => []TypeOK
<1>1. WireInv => TypeOK
  BY DEF WireInv
<1> QED BY <1>1, Wired, PTL

\* No call makes more than MaxRetry + MaxRedirect attempts.
THEOREM AttemptsAlwaysBounded == Spec => []AttemptsBounded
<1>1. WireInv => AttemptsBounded
  BY TransportAssumption DEF WireInv, TypeOK, CountsOK, Counts, AttemptsBounded
<1> QED BY <1>1, Wired, PTL

-----------------------------------------------------------------------------
(* A put that returned is there                                            *)

Last(p) == IF call[p] = NoCall THEN reply[p].to ELSE call[p]

\* While a call is alone nothing else is under way but what it gave up itself,
\* which puts the same content again.
AloneOK == \A p \in Procs : alone[p] =>
  /\ \A q \in Procs \ {p} : call[q] = NoCall
  /\ call[p] = NoCall => reply[p] # NoCall
  /\ \A m \in Requests : stray[m] # 0 => m = Last(p)
  /\ Last(p).op = "put" /\ did[p] => bucket[Last(p).key] = Last(p).value
  /\ call[p] = NoCall /\ reply[p].is = "done" /\ reply[p].to.op = "put" => did[p]

SoleInv == WireInv /\ AloneOK

\* Putting again what is there changes nothing of it.
LEMMA PutAgain ==
  ASSUME NEW m \in Requests, NEW b \in [Keys -> Values \cup {Absent}], m.op = "put"
  PROVE  Applied(m, b)[m.key] = m.value
BY TransportAssumption DEF Applied

LEMMA NextAlone == SoleInv /\ [Next]_vars => AloneOK'
<1> SUFFICES ASSUME SoleInv, [Next]_vars PROVE AloneOK'
  OBVIOUS
<1> USE TransportAssumption DEF SoleInv, WireInv, TypeOK, AloneOK, Last
<1>1. ASSUME NEW p \in Procs, NEW m \in Requests, Call(p, m) PROVE AloneOK'
  <2>1. /\ call'[p] = m /\ m # NoCall /\ ~did'[p]
        /\ \A q \in Procs : alone'[q] => q = p /\ Quiet(p)
        /\ \A q \in Procs \ {p} : call'[q] = call[q]
        /\ stray' = stray
    BY <1>1 DEF Call
  <2>2. \A n \in Requests : Quiet(p) => stray[n] = 0
    BY DEF Quiet
  <2> QED BY <2>1, <2>2 DEF Quiet
<1>2. ASSUME NEW p \in Procs, Send(p) PROVE AloneOK'
  BY <1>2 DEF Send
<1>3. ASSUME NEW p \in Procs, Lose(p) PROVE AloneOK'
  BY <1>3 DEF Lose
<1>4. ASSUME NEW p \in Procs, Receive(p) PROVE AloneOK'
  BY <1>4 DEF Receive
<1>5. ASSUME NEW p \in Procs, Fail(p) PROVE AloneOK'
  BY <1>5 DEF Fail
<1>6. ASSUME NEW p \in Procs, Return(p) PROVE AloneOK'
  <2>1. /\ call[p] \in Requests /\ call[p] # NoCall
        /\ call' = [call EXCEPT ![p] = NoCall]
        /\ reply' = [reply EXCEPT ![p] =
                       [to |-> call[p], is |-> Outcome(call[p].op, answer[p])]]
        /\ UNCHANGED <<bucket, stray, did, alone>>
    BY <1>6 DEF Return
  <2>2. reply'[p] # NoCall
    <3>1. Outcome(call[p].op, answer[p]) \in Replies
      BY <2>1, OutcomeType
    <3>2. reply'[p] \in [to : Requests, is : Replies]
      BY <2>1, <3>1
    <3> QED BY <3>2
  <2>3. call[p].op = "put" /\ Outcome(call[p].op, answer[p]) = "done" => did[p]
    BY <2>1, OutcomeType DEF AckOK
  <2> QED BY <2>1, <2>2, <2>3
<1>7. ASSUME NEW p \in Procs, NEW a \in Answers, Serve(p, a) PROVE AloneOK'
  <2>1. /\ call[p] \in Requests /\ call[p] # NoCall
        /\ UNCHANGED <<call, reply, stray, alone>>
        /\ \/ bucket' = Applied(call[p], bucket) /\ did' = [did EXCEPT ![p] = TRUE]
           \/ UNCHANGED <<bucket, did>>
    BY <1>7 DEF Serve
  <2> QED BY <2>1, PutAgain
<1>8. ASSUME NEW m \in Requests, ServeStray(m) PROVE AloneOK'
  BY <1>8, PutAgain DEF ServeStray, callVars
<1>9. CASE UNCHANGED vars
  BY <1>9 DEF vars, callVars
<1> HIDE DEF AloneOK
<1> QED
  BY <1>1, <1>2, <1>3, <1>4, <1>5, <1>6, <1>7, <1>8, <1>9 DEF Next, Attempt

\* A put that returned, alone, is in the bucket until the next call is made,
\* whenever the attempts it gave up arrive.
THEOREM SolePutIsAlwaysThere == Spec => []SolePutIsThere
<1>1. Init => AloneOK
  BY DEF Init, AloneOK
<1>2. SoleInv /\ [Next]_vars => AloneOK'
  BY NextAlone
<1>3. SoleInv => SolePutIsThere
  BY DEF SoleInv, AloneOK, Last, SolePutIsThere
<1> QED BY <1>1, <1>2, <1>3, Wired, PTL DEF Spec, SoleInv

-----------------------------------------------------------------------------
(* The promise                                                             *)

LEMMA NextKeepsPromise ==
  WireInv /\ [Next]_vars => [Service!Next]_(Service!serviceVars)
<1> SUFFICES ASSUME WireInv, [Next]_vars
             PROVE  Service!Next \/ UNCHANGED Service!serviceVars
  OBVIOUS
<1> USE TransportAssumption DEF WireInv, TypeOK, Service!Next, Service!serviceVars, Late
<1>1. ASSUME NEW p \in Procs, NEW m \in Requests, Call(p, m) PROVE Service!Invoke(p)
  BY <1>1 DEF Call, Service!Invoke
<1>2. ASSUME NEW p \in Procs, Send(p) \/ Receive(p) \/ Fail(p)
      PROVE  UNCHANGED Service!serviceVars
  BY <1>2 DEF Send, Receive, Fail
<1>3. ASSUME NEW p \in Procs, Lose(p)
      PROVE  Service!Abandon(p) \/ UNCHANGED Service!serviceVars
  BY <1>3 DEF Lose, Service!Abandon
<1>4. ASSUME NEW p \in Procs, Return(p) PROVE Service!Return(p)
  <2>1. /\ call[p] \in Requests /\ call[p] # NoCall
        /\ call' = [call EXCEPT ![p] = NoCall]
        /\ reply' = [reply EXCEPT ![p] =
                       [to |-> call[p], is |-> Outcome(call[p].op, answer[p])]]
        /\ UNCHANGED <<bucket, stray, did>>
    BY <1>4 DEF Return
  <2>2. /\ Outcome(call[p].op, answer[p]) \in Replies
        /\ call[p].op = "put" /\ Outcome(call[p].op, answer[p]) = "done" => did[p]
    BY <2>1, OutcomeType DEF AckOK
  <2> QED BY <2>1, <2>2 DEF Service!Return
<1>5. ASSUME NEW p \in Procs, NEW a \in Answers, Serve(p, a)
      PROVE  Service!Effect(p) \/ UNCHANGED Service!serviceVars
  BY <1>5 DEF Serve, Service!Effect, Applied, Service!Applied
<1>6. ASSUME NEW m \in Requests, ServeStray(m) PROVE Service!LateEffect(m)
  BY <1>6 DEF ServeStray, callVars, Service!LateEffect, Applied, Service!Applied
<1>7. CASE UNCHANGED vars
  BY <1>7 DEF vars, callVars
<1> QED BY <1>1, <1>2, <1>3, <1>4, <1>5, <1>6, <1>7 DEF Next, Attempt

\* The adapter over the SDK implements ObsService: retries, redirects and lost
\* answers are effects and abandoned requests of a call, and a put is
\* acknowledged only after its effect.
THEOREM AdapterKeepsPromise == Spec => KeepsPromise
<1>1. Init => Service!Init
  BY DEF Init, Service!Init, Late
<1>2. WireInv /\ [Next]_vars => [Service!Next]_(Service!serviceVars)
  BY NextKeepsPromise
<1> QED BY <1>1, <1>2, Wired, PTL DEF Spec, KeepsPromise, Service!Spec
=============================================================================
