----------------------------- MODULE ObsService -----------------------------
(***************************************************************************)
(* What the other modules may rely on when a command calls the object      *)
(* store.  A call takes effect any number of times, also none; what is     *)
(* abandoned on the way may take effect after the call has returned, or    *)
(* never.  Of the answers, only that of a put promises anything: a put     *)
(* that is acknowledged took effect while it ran.                          *)
(***************************************************************************)
CONSTANTS Procs, Keys, Values, Requests, Replies, Absent, NoCall

VARIABLES
  bucket,  \* bucket[k]: the content under key k
  call,    \* call[p]: the request p is waiting for
  did,     \* did[p]: the call of p has taken effect
  late,    \* the abandoned requests that may still take effect
  reply    \* reply[p]: the answer p got to its last call

Changes(m) == m.op \in {"put", "delete"}
Applied(m, b) ==
  CASE m.op = "put" -> [b EXCEPT ![m.key] = m.value]
    [] m.op = "delete" -> [b EXCEPT ![m.key] = Absent]
    [] OTHER -> b

Init ==
  /\ bucket \in [Keys -> Values \cup {Absent}]
  /\ call = [p \in Procs |-> NoCall]
  /\ did = [p \in Procs |-> FALSE]
  /\ late = {}
  /\ reply = [p \in Procs |-> NoCall]

Invoke(p) ==
  /\ call[p] = NoCall
  /\ \E m \in Requests : call' = [call EXCEPT ![p] = m]
  /\ did' = [did EXCEPT ![p] = FALSE]
  /\ UNCHANGED <<bucket, late, reply>>

Effect(p) ==
  /\ call[p] # NoCall
  /\ bucket' = Applied(call[p], bucket)
  /\ did' = [did EXCEPT ![p] = TRUE]
  /\ UNCHANGED <<call, late, reply>>

Abandon(p) ==
  /\ call[p] # NoCall
  /\ late' = late \cup {call[p]}
  /\ UNCHANGED <<bucket, call, did, reply>>

LateEffect(m) ==
  /\ m \in late
  /\ bucket' \in {bucket, Applied(m, bucket)}
  /\ late' \in {late, late \ {m}}
  /\ UNCHANGED <<call, did, reply>>

Return(p) ==
  /\ call[p] # NoCall
  /\ \E r \in Replies :
       /\ call[p].op = "put" /\ r = "done" => did[p]
       /\ reply' = [reply EXCEPT ![p] = [to |-> call[p], is |-> r]]
  /\ call' = [call EXCEPT ![p] = NoCall]
  /\ UNCHANGED <<bucket, did, late>>

Next ==
  \/ \E p \in Procs : Invoke(p) \/ Effect(p) \/ Abandon(p) \/ Return(p)
  \/ \E m \in Requests : LateEffect(m)

serviceVars == <<bucket, call, did, late, reply>>
Spec == Init /\ [][Next]_serviceVars
=============================================================================
