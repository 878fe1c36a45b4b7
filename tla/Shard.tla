------------------------------- MODULE Shard -------------------------------
(***************************************************************************)
(* What DoPut and DoGet promise about one output directory (SPEC.md 10.1): *)
(* the rows a write job was sent become readable all at once or never, no  *)
(* second job adds to them, a job is acknowledged only once its rows are   *)
(* readable, and a read answers with all of them, finds no shard, or is    *)
(* refused the shard as a whole (SPEC.md 8.2).                             *)
(***************************************************************************)
EXTENDS Naturals

CONSTANTS Jobs, Readers, BatchRows, Nothing, Refused

VARIABLES
    sent,    \* rows the server has taken from each job, in order
    shard,   \* the job whose rows are readable and how many they are
    told,    \* the jobs the server has acknowledged
    answer   \* what each read was answered

vars == <<sent, shard, told, answer>>

Content == [job : Jobs, rows : Nat]
NoShard == [job |-> Nothing, rows |-> 0]

Init ==
    /\ sent = [j \in Jobs |-> 0]
    /\ shard = NoShard
    /\ told = {}
    /\ answer = [r \in Readers |-> Nothing]

\* The rows of a job are taken while it is not yet readable.
Take(j) ==
    /\ shard.job # j
    /\ \E n \in BatchRows : sent' = [sent EXCEPT ![j] = @ + n]
    /\ UNCHANGED <<shard, told, answer>>

Publish(j) ==
    /\ shard = NoShard
    /\ sent[j] > 0
    /\ shard' = [job |-> j, rows |-> sent[j]]
    /\ UNCHANGED <<sent, told, answer>>

Tell(j) ==
    /\ shard.job = j
    /\ told' = told \cup {j}
    /\ UNCHANGED <<sent, shard, answer>>

Answer(r) ==
    /\ answer[r] = Nothing
    /\ \/ answer' = [answer EXCEPT ![r] = shard]
       \/ shard # NoShard /\ answer' = [answer EXCEPT ![r] = Refused]
    /\ UNCHANGED <<sent, shard, told>>

Next ==
    \/ \E j \in Jobs : Take(j) \/ Publish(j) \/ Tell(j)
    \/ \E r \in Readers : Answer(r)

Spec == Init /\ [][Next]_vars
=============================================================================
