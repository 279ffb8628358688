---------------------------- MODULE ObsTransport ----------------------------
(***************************************************************************)
(* A call of _RealObsClient on the OBS service: the adapter in             *)
(* src/obs_client.py over one SDK method, whose request goes through       *)
(* _make_request_with_retry of obs/client.py.  Every attempt may be served *)
(* and its answer lost, and a request the caller has given up on may still *)
(* reach the service.  The service itself is external: it serves a request *)
(* or refuses it, sends the caller elsewhere (3xx), or fails (5xx) before  *)
(* or after the effect.                                                    *)
(***************************************************************************)
EXTENDS Integers, FiniteSets

CONSTANTS
  Procs,        \* the commands, separate processes
  Keys,         \* the keys, numbered in the order the service lists them
  Values,
  Requests,     \* the calls commands make: [op, key, value]
  MaxRetry,     \* max_retry_count
  MaxRedirect,  \* max_redirect_count
  PageSize,     \* the most keys one answer lists
  MaxCalls,     \* bound: calls made by one command
  MaxStray,     \* bound: equal requests abandoned and still under way
  Absent, NoCall

Ops      == {"put", "delete", "head", "get", "list"}
Answers  == {"2xx", "3xx", "4xx", "5xx"}
Failures == {"lost", "3xx", "5xx"}
Replies  == {"done", "error", "not_found"}

ASSUME TransportAssumption ==
  /\ Keys \subseteq Nat
  /\ Requests \subseteq [op : Ops, key : Keys, value : Values]
  /\ MaxRetry \in Nat /\ MaxRedirect \in Nat \ {0} /\ PageSize \in Nat \ {0}
  /\ MaxCalls \in Nat /\ MaxStray \in Nat
  /\ NoCall \notin Requests \cup [to : Requests, is : Replies]
  /\ Absent \notin Values

VARIABLES
  bucket,     \* bucket[k]: the content under key k
  call,       \* call[p]: the request p is waiting for
  calls,      \* how many calls p has made
  pc,         \* where p is in the retry loop
  flag,       \* _make_request_with_retry: flag
  redirects,  \* ... and redirect_count
  tries,      \* history: the attempts of the call
  onWire,     \* the service has not served the attempt p waits on
  answer,     \* answer[p]: the status of the attempt, or how it failed
  page,       \* the keys the answer to a list holds
  stray,      \* stray[m]: abandoned attempts of request m under way
  reply,      \* what the adapter gave its caller
  did,        \* history: a request of the call took effect
  alone,      \* history: no other request was under way since the call began
  steady      \* history: the keys that were there since the call began

callVars == <<call, calls, pc, flag, redirects, tries, onWire, answer, page, reply>>
vars == <<bucket, callVars, stray, did, alone, steady>>

PCs == {"idle", "send", "wait", "answered", "failed", "returned"}

TypeOK ==
  /\ bucket \in [Keys -> Values \cup {Absent}]
  /\ call \in [Procs -> Requests \cup {NoCall}]
  /\ calls \in [Procs -> Nat]
  /\ pc \in [Procs -> PCs]
  /\ \A p \in Procs : pc[p] = "idle" <=> call[p] = NoCall
  /\ flag \in [Procs -> 0..MaxRetry]
  /\ redirects \in [Procs -> 0..MaxRedirect]
  /\ tries \in [Procs -> Nat]
  /\ onWire \in [Procs -> BOOLEAN]
  /\ answer \in [Procs -> Answers \cup {"none", "lost"}]
  /\ page \in [Procs -> SUBSET Keys]
  /\ stray \in [Requests -> Nat]
  /\ reply \in [Procs -> [to : Requests, is : Replies] \cup {NoCall}]
  /\ did \in [Procs -> BOOLEAN]
  /\ alone \in [Procs -> BOOLEAN]
  /\ steady \in [Procs -> SUBSET Keys]

Present == {k \in Keys : bucket[k] # Absent}

Init ==
  /\ bucket \in [Keys -> Values \cup {Absent}]
  /\ call = [p \in Procs |-> NoCall]
  /\ calls = [p \in Procs |-> 0]
  /\ pc = [p \in Procs |-> "idle"]
  /\ flag = [p \in Procs |-> 0]
  /\ redirects = [p \in Procs |-> 0]
  /\ tries = [p \in Procs |-> 0]
  /\ onWire = [p \in Procs |-> FALSE]
  /\ answer = [p \in Procs |-> "none"]
  /\ page = [p \in Procs |-> {}]
  /\ stray = [m \in Requests |-> 0]
  /\ reply = [p \in Procs |-> NoCall]
  /\ did = [p \in Procs |-> FALSE]
  /\ alone = [p \in Procs |-> FALSE]
  /\ steady = [p \in Procs |-> {}]

-----------------------------------------------------------------------------
(* The caller                                                              *)

Quiet(p) ==
  /\ \A q \in Procs \ {p} : call[q] = NoCall
  /\ \A m \in Requests : stray[m] = 0

Call(p, m) ==
  /\ pc[p] = "idle" /\ calls[p] < MaxCalls
  /\ call' = [call EXCEPT ![p] = m]
  /\ calls' = [calls EXCEPT ![p] = @ + 1]
  /\ pc' = [pc EXCEPT ![p] = "send"]
  /\ flag' = [flag EXCEPT ![p] = 0]
  /\ redirects' = [redirects EXCEPT ![p] = 0]
  /\ tries' = [tries EXCEPT ![p] = 0]
  /\ page' = [page EXCEPT ![p] = {}]
  /\ did' = [did EXCEPT ![p] = FALSE]
  /\ alone' = [q \in Procs |-> q = p /\ Quiet(p)]
  /\ steady' = [steady EXCEPT ![p] = Present]
  /\ UNCHANGED <<bucket, onWire, answer, stray, reply>>

\* _make_request_internal: a new connection, and the request on it.  putFile's
\* entity opens its file anew, so every attempt carries the whole content.
Send(p) ==
  /\ pc[p] = "send"
  /\ pc' = [pc EXCEPT ![p] = "wait"]
  /\ onWire' = [onWire EXCEPT ![p] = TRUE]
  /\ tries' = [tries EXCEPT ![p] = IF @ > MaxRetry + MaxRedirect THEN @ ELSE @ + 1]
  /\ UNCHANGED <<bucket, call, calls, flag, redirects, answer, page, reply, stray,
                 did, alone, steady>>

\* No connection, a connection that breaks or 60 seconds without an answer:
\* the request may be on its way all the same.
Lose(p) ==
  /\ pc[p] = "wait"
  /\ pc' = [pc EXCEPT ![p] = "failed"]
  /\ answer' = [answer EXCEPT ![p] = "lost"]
  /\ onWire' = [onWire EXCEPT ![p] = FALSE]
  /\ \/ UNCHANGED stray
     \/ /\ onWire[p] /\ stray[call[p]] < MaxStray
        /\ stray' = [stray EXCEPT ![call[p]] = @ + 1]
  /\ UNCHANGED <<bucket, call, calls, flag, redirects, tries, page, reply, did, alone,
                 steady>>

\* _parse_xml_internal: 3xx and 5xx become exceptions, a 4xx is a result.
Receive(p) ==
  /\ pc[p] = "wait" /\ ~onWire[p]
  /\ pc' = [pc EXCEPT ![p] = IF answer[p] \in Failures THEN "failed" ELSE "answered"]
  /\ UNCHANGED <<bucket, call, calls, flag, redirects, tries, onWire, answer, page,
                 reply, stray, did, alone, steady>>

\* The except branch: a redirect counts against its own limit only; with an
\* answer in hand the last failure is returned, else it is raised.
Redirected(p) == IF answer[p] = "3xx" THEN 1 ELSE 0
RedirectCount_mut(p) == redirects[p]
RedirectCount(p) == redirects[p] + Redirected(p)

\* No call of the adapter sets readable, which would end the loop at once.
Exhausted_mut(f) == f > MaxRetry
Exhausted(f) == f >= MaxRetry

Fail(p) ==
  LET f == flag[p] - Redirected(p)
      r == RedirectCount(p)
  IN
  /\ pc[p] = "failed"
  /\ IF r >= MaxRedirect \/ Exhausted(f)
     THEN /\ pc' = [pc EXCEPT ![p] = "answered"]
          /\ UNCHANGED <<flag, redirects>>
     ELSE /\ pc' = [pc EXCEPT ![p] = "send"]
          /\ flag' = [flag EXCEPT ![p] = f + 1]
          /\ redirects' = [redirects EXCEPT ![p] = r]
  /\ UNCHANGED <<bucket, call, calls, tries, onWire, answer, page, reply, stray, did,
                 alone, steady>>

\* What the adapter makes of it.  put_file looks at the status; delete_object
\* does not; the headers and the body stream it asks head and get for are not
\* where the SDK puts them, so those two end one way whatever the answer; and a
\* list goes no further than its first page, for the SDK calls the attribute it
\* tests is_truncated.
Outcome_mut(op, a) ==
  CASE op = "put"    -> IF a # "lost" THEN "done" ELSE "error"
    [] op = "delete" -> IF a # "lost" THEN "done" ELSE "error"
    [] op = "head"   -> "not_found"
    [] op = "get"    -> "error"
    [] op = "list"   -> IF a = "2xx" THEN "done" ELSE "error"
Outcome(op, a) ==
  CASE op = "put"    -> IF a = "2xx" THEN "done" ELSE "error"
    [] op = "delete" -> IF a # "lost" THEN "done" ELSE "error"
    [] op = "head"   -> "not_found"
    [] op = "get"    -> "error"
    [] op = "list"   -> IF a = "2xx" THEN "done" ELSE "error"

Return(p) ==
  /\ pc[p] = "answered"
  /\ reply' = [reply EXCEPT ![p] =
                 [to |-> call[p], is |-> Outcome(call[p].op, answer[p])]]
  /\ call' = [call EXCEPT ![p] = NoCall]
  /\ pc' = [pc EXCEPT ![p] = "idle"]
  /\ answer' = [answer EXCEPT ![p] = "none"]
  /\ UNCHANGED <<bucket, calls, flag, redirects, tries, onWire, page, stray, did,
                 alone, steady>>

-----------------------------------------------------------------------------
(* The service                                                             *)

Applied(m, b) ==
  CASE m.op = "put" -> [b EXCEPT ![m.key] = m.value]
    [] m.op = "delete" -> [b EXCEPT ![m.key] = Absent]
    [] OTHER -> b

StillThere == steady' = [p \in Procs |-> {k \in steady[p] : bucket'[k] # Absent}]

FirstPage ==
  {k \in Present : Cardinality({l \in Present : l < k}) < PageSize}

\* The service deals with the attempt p waits on.
Serve(p, a) ==
  LET m == call[p] IN
  /\ pc[p] = "wait" /\ onWire[p]
  /\ onWire' = [onWire EXCEPT ![p] = FALSE]
  /\ answer' = [answer EXCEPT ![p] = a]
  /\ \/ /\ a \in {"2xx", "5xx"}
        /\ bucket' = Applied(m, bucket)
        /\ did' = [did EXCEPT ![p] = TRUE]
     \/ /\ a \in {"3xx", "4xx", "5xx"}
        /\ UNCHANGED <<bucket, did>>
  /\ page' = [page EXCEPT ![p] = IF m.op = "list" /\ a = "2xx" THEN FirstPage ELSE @]
  /\ StillThere
  /\ UNCHANGED <<call, calls, pc, flag, redirects, tries, reply, stray, alone>>

\* A request nobody waits for arrives, or is lost on the way.
ServeStray(m) ==
  /\ stray[m] > 0
  /\ stray' = [stray EXCEPT ![m] = @ - 1]
  /\ bucket' \in {bucket, Applied(m, bucket)}
  /\ StillThere
  /\ UNCHANGED <<callVars, did, alone>>

Attempt(p) == Send(p) \/ Lose(p) \/ Receive(p) \/ Fail(p) \/ Return(p)

Next ==
  \/ \E p \in Procs : Attempt(p) \/ (\E a \in Answers : Serve(p, a))
  \/ \E p \in Procs, m \in Requests : Call(p, m)
  \/ \E m \in Requests : ServeStray(m)

Spec == Init /\ [][Next]_vars

\* A command goes on with its call: the timeout ends the wait when the service
\* does not.
FairSpec == Spec /\ \A p \in Procs : WF_vars(Attempt(p))

-----------------------------------------------------------------------------
(* Properties                                                              *)

\* Redirects and failures together: max_retry_count failures besides the first,
\* and one redirect less than max_redirect_count, for a redirect takes back
\* from `flag` what the loop then adds.
AttemptsBounded == \A p \in Procs : tries[p] <= MaxRetry + MaxRedirect

\* put_file returns only if its content is there: unless another call was under
\* way or an abandoned one still on its way, and until the next call is made,
\* the key holds what was put, whatever became of the attempts before the one
\* that was answered and whenever they arrive.
SolePutIsThere ==
  \A p \in Procs :
    call[p] = NoCall /\ alone[p] /\ reply[p] # NoCall /\ reply[p].is = "done" /\ reply[p].to.op = "put"
      => bucket[reply[p].to.key] = reply[p].to.value

\* The promise the other modules are written against.
Late == {m \in Requests : stray[m] > 0}
Service == INSTANCE ObsService WITH late <- Late
KeepsPromise == Service!Spec

\* Every call ends, whether the service answers, redirects or stays silent.
CallsEnd == \A p \in Procs : call[p] # NoCall ~> call[p] = NoCall

\* README.md:5, the program finds the backups in the bucket by itself: a listing
\* that ends without an error holds every key that was there while it ran.
ListsEveryKey ==
  \A p \in Procs :
    call[p] = NoCall /\ reply[p] # NoCall /\ reply[p].is = "done" /\ reply[p].to.op = "list"
      => steady[p] \subseteq page[p]
=============================================================================
