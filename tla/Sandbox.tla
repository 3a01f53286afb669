------------------------------ MODULE Sandbox ------------------------------
(***************************************************************************)
(* cmd/sandbox: uploads (uploadHandler, over HTTP) and executions          *)
(* (ExecuteSubmission, over gRPC) as processes that share one Docker       *)
(* daemon, and the image janitor.  An upload builds the image of its       *)
(* submission, replaces the container, waits for its port and, over HTTP,  *)
(* asks the fleet for a benchmark.  Each upload has code of its own.       *)
(***************************************************************************)
EXTENDS Docker, Naturals, FiniteSets

CONSTANT MaxFaults  \* bound: failed calls, clients that leave, crashes

ASSUME FaultsAssumption == MaxFaults \in Nat

VARIABLES
    docker,   \* the daemon
    pc,       \* the call each upload makes next
    client,   \* uploads whose request context is not cancelled
    sweep,    \* submissions whose image the janitor will remove
    excuses,  \* history: what happened to each upload
    faults

vars == <<docker, pc, client, sweep, excuses, faults>>

Calls == {"untag", "build", "clear", "create", "start", "connect", "stop", "discard", "wait",
          "undo", "trigger"}
Excuses == {"overlap", "fault", "taken"}

TypeOK ==
    /\ docker \in Daemons
    /\ pc \in [Uploads -> Calls \cup {"idle", "ok", "failed"}]
    /\ client \subseteq Uploads
    /\ sweep \subseteq Submissions
    /\ excuses \in [Uploads -> SUBSET Excuses]
    /\ faults \in 0..MaxFaults

Init ==
    /\ docker = NothingDeployed
    /\ pc = [u \in Uploads |-> "idle"]
    /\ client = Uploads
    /\ sweep = {}
    /\ excuses = [u \in Uploads |-> {}]
    /\ faults = 0

Active(u) == pc[u] \in Calls
Fault == faults < MaxFaults /\ faults' = faults + 1
Excuse(us, why) == excuses' = [u \in Uploads |-> IF u \in us THEN excuses[u] \cup {why} ELSE excuses[u]]
Goto(u, call) == pc' = [pc EXCEPT ![u] = call]

-----------------------------------------------------------------------------
\* A request arrives; another one for the same port may be under way.
Arrive(u) ==
    /\ pc[u] = "idle"
    /\ Goto(u, "untag")
    /\ LET others == {v \in Uploads \ {u} : Active(v) /\ Port(v) = Port(u)}
       IN  IF others = {} THEN UNCHANGED excuses ELSE Excuse(others \cup {u}, "overlap")
    /\ UNCHANGED <<docker, client, sweep, faults>>

\* A call of the daemon with the context of the request.  It does what it is
\* for, if the daemon can do it; it fails without effect, in any case when the
\* client has left; or the client leaves while the daemon does it.
Call(u, can, effect, next, otherwise) ==
    /\ \/ /\ u \in client /\ can
          /\ docker' = effect /\ Goto(u, next)
          /\ UNCHANGED <<client, excuses, faults>>
       \/ /\ ~ (u \in client /\ can)
          /\ Goto(u, otherwise)
          /\ UNCHANGED <<docker, client, excuses, faults>>
       \/ /\ u \in client /\ Fault /\ Excuse({u}, "fault")
          /\ Goto(u, otherwise)
          /\ UNCHANGED <<docker, client>>
       \/ /\ u \in client /\ can /\ Fault /\ Excuse({u}, "fault")
          /\ docker' = effect /\ Goto(u, otherwise)
          /\ client' = client \ {u}
    /\ UNCHANGED sweep

\* buildSubmissionImage.  The error of ImageRemove is ignored.
Untag(u) ==
    /\ pc[u] = "untag"
    /\ Call(u, TRUE, Untagged(docker, SubmissionOf[u]), "build", "build")

Build(u) ==
    /\ pc[u] = "build"
    /\ Call(u, TRUE, Built(docker, u), "clear", "failed")

\* The code does not compile.
BuildFails(u) ==
    /\ pc[u] = "build" /\ u \in client
    /\ Goto(u, "failed")
    /\ UNCHANGED <<docker, client, sweep, excuses, faults>>

\* Mutant: the container of the last upload is not removed.
ClearNothing(u) ==
    /\ pc[u] = "clear"
    /\ Goto(u, "create")
    /\ UNCHANGED <<docker, client, sweep, excuses, faults>>

\* runSubmissionContainer.  The error of ContainerRemove is ignored.
Clear(u) ==
    /\ pc[u] = "clear"
    /\ Call(u, TRUE, Removed(docker, Named(docker, SubmissionOf[u])), "create", "create")

Create(u) ==
    /\ pc[u] = "create"
    /\ Call(u, CanCreate(docker, u), Created(docker, u), "start", "failed")

\* Mutant: the error of ContainerStart is ignored.
StartErrorIgnored(u) ==
    /\ pc[u] = "start"
    /\ Call(u, CanStart(docker, u), Started(docker, u), "connect", "wait")

Start(u) ==
    /\ pc[u] = "start"
    /\ Call(u, CanStart(docker, u), Started(docker, u), "connect", "stop")

\* NetworkConnect changes nothing here, but the container must be there.
Connect(u) ==
    /\ pc[u] = "connect"
    /\ Call(u, Exists(docker, u), docker, "wait", "stop")

\* cleanup: ContainerStop, which ends a running container, and ContainerRemove.
Stop(u) ==
    /\ pc[u] = "stop"
    /\ Call(u, docker.state[u] = "running", Removed(docker, {u}), "discard", "discard")

\* Mutant: the container is removed by its name.
DiscardByName(u) ==
    /\ pc[u] = "discard"
    /\ Call(u, TRUE, Removed(docker, Named(docker, SubmissionOf[u])), "failed", "failed")

\* Mutant: a container with AutoRemove is thought to need no removal.
DiscardNothing(u) ==
    /\ pc[u] = "discard"
    /\ Goto(u, "failed")
    /\ UNCHANGED <<docker, client, sweep, excuses, faults>>

Discard(u) ==
    /\ pc[u] = "discard"
    /\ Call(u, TRUE, Removed(docker, {u}), "failed", "failed")

-----------------------------------------------------------------------------
\* waitForReady dials the host port, and does not know whose container it is.
\* Over gRPC the answer follows at once.
Ready(u) ==
    /\ pc[u] = "wait"
    /\ Listening(docker, Port(u)) # {}
    /\ \E next \in {"trigger", "ok"} : Goto(u, next)
    /\ UNCHANGED <<docker, client, sweep, excuses, faults>>

\* Nothing answered for ten seconds.
NotReady(u) ==
    /\ pc[u] = "wait"
    /\ Goto(u, "undo")
    /\ UNCHANGED <<docker, client, sweep, excuses, faults>>

Undo(u) ==
    /\ pc[u] = "undo"
    /\ Call(u, TRUE, Removed(docker, {u}), "failed", "failed")

\* triggerFleetBenchmark has a context of its own: it does not matter whether
\* the client is still there.  When the call fails the container stays.
Trigger(u) ==
    /\ pc[u] = "trigger"
    /\ \/ /\ Goto(u, "ok")
          /\ UNCHANGED <<excuses, faults>>
       \/ /\ Goto(u, "failed")
          /\ Fault /\ Excuse({u}, "fault")
    /\ UNCHANGED <<docker, client, sweep>>

-----------------------------------------------------------------------------
\* The client closes its connection, or its call is cancelled.
Leave(u) ==
    /\ Active(u) /\ u \in client
    /\ Fault /\ Excuse({u}, "fault")
    /\ client' = client \ {u}
    /\ UNCHANGED <<docker, pc, sweep>>

\* The contestant's program ends, and Docker removes its container.
Exit(u) ==
    /\ docker.state[u] = "running"
    /\ docker' = Removed(docker, {u})
    /\ Excuse({u} \cap {v \in Uploads : Active(v)}, "taken")
    /\ UNCHANGED <<pc, client, sweep, faults>>

\* The process dies under its requests; the daemon goes on.
Crash ==
    /\ Fault
    /\ LET lost == {u \in Uploads : Active(u)} IN
          /\ Excuse(lost, "fault")
          /\ pc' = [u \in Uploads |-> IF u \in lost THEN "failed" ELSE pc[u]]
    /\ sweep' = {}
    /\ UNCHANGED <<docker, client>>

\* An hour passes for an image; its upload has ended long before.
Age(u) ==
    /\ docker.tag[SubmissionOf[u]] = u
    /\ ~ Active(u)
    /\ docker' = [docker EXCEPT !.old = @ \cup {SubmissionOf[u]}]
    /\ UNCHANGED <<pc, client, sweep, excuses, faults>>

\* cleanupOldImages: list the images, then remove the old ones by tag.
JanitorLists ==
    /\ sweep = {}
    /\ sweep' = docker.old
    /\ UNCHANGED <<docker, pc, client, excuses, faults>>

JanitorRemoves(s) ==
    /\ s \in sweep
    /\ sweep' = sweep \ {s}
    /\ docker' = Untagged(docker, s)
    /\ Excuse({u \in Uploads : Active(u) /\ docker.tag[s] = u}, "taken")
    /\ UNCHANGED <<pc, client, faults>>

-----------------------------------------------------------------------------
Next ==
    \/ \E u \in Uploads : Arrive(u)
    \/ \E u \in Uploads : Untag(u)
    \/ \E u \in Uploads : Build(u)
    \/ \E u \in Uploads : BuildFails(u)
    \/ \E u \in Uploads : Clear(u)
    \/ \E u \in Uploads : Create(u)
    \/ \E u \in Uploads : Start(u)
    \/ \E u \in Uploads : Connect(u)
    \/ \E u \in Uploads : Stop(u)
    \/ \E u \in Uploads : Discard(u)
    \/ \E u \in Uploads : Ready(u)
    \/ \E u \in Uploads : NotReady(u)
    \/ \E u \in Uploads : Undo(u)
    \/ \E u \in Uploads : Trigger(u)
    \/ \E u \in Uploads : Leave(u)
    \/ \E u \in Uploads : Exit(u)
    \/ \E u \in Uploads : Age(u)
    \/ Crash
    \/ JanitorLists
    \/ \E s \in Submissions : JanitorRemoves(s)

Spec == Init /\ [][Next]_vars

-----------------------------------------------------------------------------
\* waitForReady returns without an error, and what it reached.
ProbeAnswered(u) == pc[u] = "wait" /\ pc'[u] \in {"trigger", "ok"}
ItsCodeAnswers(u) == \A v \in Listening(docker, Port(u)) : docker.code[v] = u

\* One container per submission, one running container per port.
NamesAndPortsAreTaken ==
    \A u, v \in Uploads :
        /\ Exists(docker, u) /\ Exists(docker, v) /\ SubmissionOf[u] = SubmissionOf[v] => u = v
        /\ {u, v} \subseteq Listening(docker, Port(u)) => u = v

\* Excuses are recorded: uploads that overlapped, clients that left.
ExcusesAreNoted ==
    \A u \in Uploads :
        /\ Active(u) => \A v \in Uploads \ {u} :
              Active(v) /\ Port(v) = Port(u) => "overlap" \in excuses[u]
        /\ u \notin client => "fault" \in excuses[u]

\* Before ContainerCreate there is no container of the upload.
NotYetCreated ==
    \A u \in Uploads :
        pc[u] \in {"idle", "untag", "build", "clear", "create"} => ~ Exists(docker, u)

\* While an upload has its port for itself, only its own code can run there.
LoneUploadHasThePort ==
    \A u \in Uploads : "overlap" \notin excuses[u] =>
        /\ pc[u] \in {"clear", "create"} => docker.tag[SubmissionOf[u]] \in {u, None}
        /\ pc[u] = "start" /\ Exists(docker, u) => docker.code[u] = u
        /\ pc[u] \in {"connect", "wait"} => ItsCodeAnswers(u)

\* An upload to which nothing happened has what it needs for its next call.
BlamelessUploadIsOnItsWay ==
    \A u \in Uploads : excuses[u] = {} =>
        /\ pc[u] \in {"clear", "create"} => docker.tag[SubmissionOf[u]] = u
        /\ pc[u] = "create" => Named(docker, SubmissionOf[u]) = {}
        /\ pc[u] = "start" => docker.state[u] = "created"
        /\ pc[u] \in {"connect", "wait", "trigger"} => docker.state[u] = "running"

\* A failed upload whose client waited for the answer leaves no container,
\* whatever other uploads did meanwhile (docker.go:195-199, grpc.go:79-82).
FailedLeaveNothing ==
    \A u \in Uploads :
        pc[u] = "failed" /\ "fault" \notin excuses[u] => ~ Exists(docker, u)

\* What holds of the daemon and the uploads together, and is kept by every
\* step (handlers.go:70-83, grpc.go:61-85, docker.go:114-211): an upload goes on
\* only with a container that runs, unless something took it.
SandboxInv ==
    /\ TypeOK
    /\ NamesAndPortsAreTaken
    /\ ExcusesAreNoted
    /\ NotYetCreated
    /\ LoneUploadHasThePort
    /\ BlamelessUploadIsOnItsWay
    /\ FailedLeaveNothing

\* A port answers to an upload that had it for itself with the upload's own
\* code, although the probe does not look who answers: any older container of
\* the submission was removed, and one of another submission that has the same
\* port makes ContainerStart fail (docker.go:161, 201).
LoneUploadReachesItsCode ==
    [][\A u \in Uploads :
        ProbeAnswered(u) /\ "overlap" \notin excuses[u] => ItsCodeAnswers(u)]_vars

\* An upload whose image was built fails between that and the probe only when
\* something is to blame: another upload, a failed call, its client, the
\* contestant's program, the janitor, or a port that two submissions share.
FailuresAreExplained ==
    [][\A u \in Uploads :
        pc[u] \in {"create", "start", "connect"} /\ pc'[u] \in {"stop", "failed"} =>
            \/ excuses'[u] # {}
            \/ \E v \in Listening(docker, Port(u)) : SubmissionOf[v] # SubmissionOf[u]]_vars

\* A container is taken away by its own end, by its own upload, or by an
\* upload of the same submission that has built its image: one that does not
\* compile, or fails later, leaves the container of another one alone.
OnlySuccessorsRemove ==
    [][\A w \in Uploads :
        Exists(docker, w) /\ ~ Exists(docker, w)' =>
            \/ docker.state[w] = "running" /\ UNCHANGED pc
            \/ pc'[w] # pc[w]
            \/ \E u \in Uploads : /\ SubmissionOf[u] = SubmissionOf[w]
                                  /\ pc[u] = "clear" /\ pc'[u] = "create"]_vars

\* ARCHITECTURE.md:69: the deterministic ports "entirely" eliminate
\* "concurrency race conditions": what answers an upload is its own code.
\* Violated: it may be the code of a concurrent upload of the same submission.
OwnCodeAnswers == [][\A u \in Uploads : ProbeAnswered(u) => ItsCodeAnswers(u)]_vars
=============================================================================
