--------------------------- MODULE SandboxProofs ---------------------------
(***************************************************************************)
(* For any uploads, submissions, ports and faults: an upload that has its  *)
(* port for itself is answered by its own code, failures have reasons and  *)
(* leave nothing behind.  SandboxInv is inductive.                         *)
(***************************************************************************)
EXTENDS Sandbox, TLAPS

\* The part of SandboxInv about one upload.
Good(u) ==
    /\ u \notin client => "fault" \in excuses[u]
    /\ pc[u] \in {"idle", "untag", "build", "clear", "create"} => ~ Exists(docker, u)
    /\ "overlap" \notin excuses[u] =>
          /\ pc[u] \in {"clear", "create"} => docker.tag[SubmissionOf[u]] \in {u, None}
          /\ pc[u] = "start" /\ Exists(docker, u) => docker.code[u] = u
          /\ pc[u] \in {"connect", "wait"} => ItsCodeAnswers(u)
    /\ excuses[u] = {} =>
          /\ pc[u] \in {"clear", "create"} => docker.tag[SubmissionOf[u]] = u
          /\ pc[u] = "create" => Named(docker, SubmissionOf[u]) = {}
          /\ pc[u] = "start" => docker.state[u] = "created"
          /\ pc[u] \in {"connect", "wait", "trigger"} => docker.state[u] = "running"
    /\ pc[u] = "failed" /\ "fault" \notin excuses[u] => ~ Exists(docker, u)

OverlapsNoted ==
    \A u, v \in Uploads :
        u # v /\ Active(u) /\ Active(v) /\ Port(u) = Port(v) => "overlap" \in excuses[u]

LEMMA InvIsGood ==
    SandboxInv <=> /\ TypeOK /\ NamesAndPortsAreTaken /\ OverlapsNoted
                   /\ \A u \in Uploads : Good(u)
BY DEF SandboxInv, Good, OverlapsNoted, ExcusesAreNoted, NotYetCreated, LoneUploadHasThePort,
       BlamelessUploadIsOnItsWay, FailedLeaveNothing

LEMMA InvIsGoodNext ==
    SandboxInv' <=> /\ TypeOK' /\ NamesAndPortsAreTaken' /\ OverlapsNoted'
                    /\ (\A u \in Uploads : Good(u))'
BY InvIsGood, PTL

LEMMA InitSandbox == Init => SandboxInv
<1> SUFFICES ASSUME Init PROVE SandboxInv
  OBVIOUS
<1> USE DockerAssumption, FaultsAssumption DEF Init, NothingDeployed
<1>1. TypeOK
  BY DEF TypeOK, Daemons, ContainerStates
<1>2. \A u \in Uploads : pc[u] = "idle" /\ docker.state[u] = "none" /\ u \in client
  OBVIOUS
<1>3. NamesAndPortsAreTaken /\ OverlapsNoted /\ \A u \in Uploads : Good(u)
  BY <1>2 DEF NamesAndPortsAreTaken, OverlapsNoted, Good, Exists, Listening, Active, Calls
<1> QED
  BY <1>1, <1>3, InvIsGood

-----------------------------------------------------------------------------
(* What each call of the daemon changes *)

LEMMA DockerType ==
    ASSUME NEW d \in Daemons
    PROVE  /\ d.tag \in [Submissions -> Uploads \cup {None}]
           /\ d.state \in [Uploads -> ContainerStates]
           /\ d.code \in [Uploads -> Uploads \cup {None}]
           /\ d.old \subseteq Submissions
BY DEF Daemons

LEMMA UntaggedEffect ==
    ASSUME NEW d \in Daemons, NEW s \in Submissions
    PROVE  /\ Untagged(d, s) \in Daemons
           /\ Untagged(d, s).state = d.state /\ Untagged(d, s).code = d.code
           /\ \A t \in Submissions : Untagged(d, s).tag[t] = IF t = s THEN None ELSE d.tag[t]
BY DEF Daemons, Untagged

LEMMA BuiltEffect ==
    ASSUME NEW d \in Daemons, NEW u \in Uploads
    PROVE  /\ Built(d, u) \in Daemons
           /\ Built(d, u).state = d.state /\ Built(d, u).code = d.code
           /\ \A s \in Submissions :
                 Built(d, u).tag[s] = IF s = SubmissionOf[u] THEN u ELSE d.tag[s]
BY DockerAssumption DEF Daemons, Built

LEMMA CreatedEffect ==
    ASSUME NEW d \in Daemons, NEW u \in Uploads
    PROVE  /\ Created(d, u) \in Daemons
           /\ Created(d, u).tag = d.tag
           /\ \A w \in Uploads :
                 /\ Created(d, u).state[w] = IF w = u THEN "created" ELSE d.state[w]
                 /\ Created(d, u).code[w] = IF w = u THEN d.tag[SubmissionOf[u]] ELSE d.code[w]
BY DockerAssumption DEF Daemons, Created, ContainerStates

LEMMA StartedEffect ==
    ASSUME NEW d \in Daemons, NEW u \in Uploads
    PROVE  /\ Started(d, u) \in Daemons
           /\ Started(d, u).tag = d.tag /\ Started(d, u).code = d.code
           /\ \A w \in Uploads :
                 Started(d, u).state[w] = IF w = u THEN "running" ELSE d.state[w]
BY DEF Daemons, Started, ContainerStates

LEMMA RemovedEffect ==
    ASSUME NEW d \in Daemons, NEW gone
    PROVE  /\ Removed(d, gone) \in Daemons
           /\ Removed(d, gone).tag = d.tag
           /\ \A u \in Uploads :
                 /\ Removed(d, gone).state[u] = IF u \in gone THEN "none" ELSE d.state[u]
                 /\ Removed(d, gone).code[u] = IF u \in gone THEN None ELSE d.code[u]
BY DEF Daemons, Removed, ContainerStates

-----------------------------------------------------------------------------
(* Steps that take containers or images away *)

\* What survives the end of some containers.
LEMMA RemovalKeepsNames ==
    ASSUME NamesAndPortsAreTaken,
           \A w \in Uploads : docker'.state[w] \in {docker.state[w], "none"}
    PROVE  NamesAndPortsAreTaken'
<1> SUFFICES ASSUME NEW u \in Uploads, NEW v \in Uploads
             PROVE  (/\ Exists(docker, u) /\ Exists(docker, v) /\ SubmissionOf[u] = SubmissionOf[v] => u = v
                     /\ {u, v} \subseteq Listening(docker, Port(u)) => u = v)'
  BY DEF NamesAndPortsAreTaken
<1>1. /\ Exists(docker', u) => Exists(docker, u)
      /\ Exists(docker', v) => Exists(docker, v)
      /\ \A p : Listening(docker', p) \subseteq Listening(docker, p)
  BY DEF Exists, Listening
<1> QED
  BY <1>1 DEF NamesAndPortsAreTaken

\* An upload that makes no step loses nothing it needs without an excuse.
LEMMA LossesAreExcused ==
    ASSUME TypeOK, TypeOK', NEW v \in Uploads, Good(v),
           pc'[v] = pc[v], excuses[v] \subseteq excuses'[v],
           v \notin client' => v \notin client \/ "fault" \in excuses'[v],
           \A w \in Uploads : \/ docker'.state[w] = docker.state[w] /\ docker'.code[w] = docker.code[w]
                              \/ docker'.state[w] = "none",
           docker'.state[v] = docker.state[v] \/ ~ Active(v) \/ excuses'[v] # {},
           docker'.tag[SubmissionOf[v]] \in {docker.tag[SubmissionOf[v]], None},
           \/ docker'.tag[SubmissionOf[v]] = docker.tag[SubmissionOf[v]]
           \/ docker.tag[SubmissionOf[v]] # v \/ ~ Active(v) \/ excuses'[v] # {}
    PROVE  Good(v)'
<1>1. /\ Exists(docker', v) => Exists(docker, v)
      /\ Listening(docker', Port(v)) \subseteq Listening(docker, Port(v))
      /\ Named(docker', SubmissionOf[v]) \subseteq Named(docker, SubmissionOf[v])
      /\ \A w \in Listening(docker', Port(v)) : docker'.code[w] = docker.code[w]
      /\ Exists(docker', v) => docker'.code[v] = docker.code[v]
  BY DEF Exists, Listening, Named
<1>2. ItsCodeAnswers(v) => ItsCodeAnswers(v)'
  BY <1>1 DEF ItsCodeAnswers
<1>3. /\ (v \notin client => "fault" \in excuses[v])'
      /\ (pc[v] \in {"idle", "untag", "build", "clear", "create"} => ~ Exists(docker, v))'
      /\ (pc[v] = "failed" /\ "fault" \notin excuses[v] => ~ Exists(docker, v))'
  BY <1>1 DEF Good
<1>4. ASSUME "overlap" \notin excuses'[v]
      PROVE  (/\ pc[v] \in {"clear", "create"} => docker.tag[SubmissionOf[v]] \in {v, None}
              /\ pc[v] = "start" /\ Exists(docker, v) => docker.code[v] = v
              /\ pc[v] \in {"connect", "wait"} => ItsCodeAnswers(v))'
  BY <1>1, <1>2, <1>4 DEF Good
<1>5. ASSUME excuses'[v] = {}
      PROVE  (/\ pc[v] \in {"clear", "create"} => docker.tag[SubmissionOf[v]] = v
              /\ pc[v] = "create" => Named(docker, SubmissionOf[v]) = {}
              /\ pc[v] = "start" => docker.state[v] = "created"
              /\ pc[v] \in {"connect", "wait", "trigger"} => docker.state[v] = "running")'
  <2>1. excuses[v] = {}
    BY <1>5
  <2> QED
    BY <1>1, <1>5, <2>1 DEF Good, Active, Calls
<1> QED
  BY <1>3, <1>4, <1>5 DEF Good

LEMMA ArriveKeeps == SandboxInv /\ (\E u \in Uploads : Arrive(u)) => SandboxInv'
<1> SUFFICES ASSUME SandboxInv, NEW u \in Uploads, Arrive(u) PROVE SandboxInv'
  OBVIOUS
<1>0. TypeOK /\ NamesAndPortsAreTaken /\ OverlapsNoted /\ \A v \in Uploads : Good(v)
  BY InvIsGood
<1> DEFINE others == {v \in Uploads \ {u} : Active(v) /\ Port(v) = Port(u)}
<1>1. /\ \A v \in Uploads : excuses'[v] = IF others # {} /\ v \in others \cup {u}
                                         THEN excuses[v] \cup {"overlap"} ELSE excuses[v]
      /\ excuses' \in [Uploads -> SUBSET Excuses]
  BY <1>0 DEF Arrive, Excuse, TypeOK, Excuses
<1>2. /\ docker' = docker /\ client' = client
      /\ pc' \in [Uploads -> Calls \cup {"idle", "ok", "failed"}]
      /\ pc[u] = "idle" /\ pc'[u] = "untag" /\ \A v \in Uploads \ {u} : pc'[v] = pc[v]
  BY <1>0 DEF Arrive, Goto, TypeOK, Calls
<1>3. TypeOK'
  BY <1>0, <1>1, <1>2 DEF TypeOK, Arrive
<1>4. NamesAndPortsAreTaken'
  BY <1>0, <1>2, RemovalKeepsNames
<1>5. OverlapsNoted'
  BY <1>0, <1>1, <1>2 DEF OverlapsNoted, Active
<1>6. ASSUME NEW v \in Uploads, v # u PROVE Good(v)'
  BY <1>0, <1>1, <1>2, <1>3, <1>6, LossesAreExcused
<1>7. Good(u)'
  BY <1>0, <1>1, <1>2 DEF Good, Exists
<1> QED
  BY <1>3, <1>4, <1>5, <1>6, <1>7, InvIsGoodNext

\* Steps of others than the uploads.
LEMMA SurroundingsKeep ==
    ASSUME SandboxInv,
           \/ \E u \in Uploads : Leave(u) \/ Exit(u) \/ Age(u)
           \/ Crash \/ JanitorLists \/ UNCHANGED vars
           \/ \E s \in Submissions : JanitorRemoves(s)
    PROVE  SandboxInv'
<1>0. TypeOK /\ NamesAndPortsAreTaken /\ OverlapsNoted /\ \A v \in Uploads : Good(v)
  BY InvIsGood
<1> USE DockerAssumption, FaultsAssumption
\* The conjuncts follow from what these steps have in common.
<1> DEFINE Keeps ==
        /\ TypeOK'
        /\ \A w \in Uploads : \/ docker'.state[w] = docker.state[w] /\ docker'.code[w] = docker.code[w]
                              \/ docker'.state[w] = "none"
        /\ \A v \in Uploads :
              /\ \/ pc'[v] = pc[v]
                 \/ pc'[v] = "failed" /\ "fault" \in excuses'[v]
              /\ excuses[v] \subseteq excuses'[v]
              /\ v \notin client' => v \notin client \/ "fault" \in excuses'[v]
              /\ docker'.state[v] = docker.state[v] \/ ~ Active(v) \/ excuses'[v] # {}
              /\ docker'.tag[SubmissionOf[v]] \in {docker.tag[SubmissionOf[v]], None}
              /\ \/ docker'.tag[SubmissionOf[v]] = docker.tag[SubmissionOf[v]]
                 \/ docker.tag[SubmissionOf[v]] # v \/ ~ Active(v) \/ excuses'[v] # {}
<1>1. ASSUME Keeps PROVE SandboxInv'
  <2>1. NamesAndPortsAreTaken'
    BY <1>0, <1>1, RemovalKeepsNames
  <2>2. OverlapsNoted'
    BY <1>0, <1>1 DEF OverlapsNoted, Active, Calls
  <2>3. ASSUME NEW v \in Uploads, pc'[v] = pc[v] PROVE Good(v)'
    BY <1>0, <1>1, <2>3, LossesAreExcused
  <2>4. ASSUME NEW v \in Uploads, pc'[v] = "failed", "fault" \in excuses'[v] PROVE Good(v)'
    BY <2>4 DEF Good
  <2> QED
    BY <1>1, <2>1, <2>2, <2>3, <2>4, InvIsGoodNext
<1>2. ASSUME NEW u \in Uploads, Leave(u) PROVE Keeps
  BY <1>0, <1>2 DEF Leave, Fault, Excuse, TypeOK, Excuses
<1>3. ASSUME NEW u \in Uploads, Exit(u) PROVE Keeps
  <2>1. docker \in Daemons /\ docker' = Removed(docker, {u})
    BY <1>0, <1>3 DEF Exit, TypeOK
  <2>2. /\ docker' \in Daemons /\ docker'.tag = docker.tag
        /\ \A w \in Uploads : /\ docker'.state[w] = IF w = u THEN "none" ELSE docker.state[w]
                              /\ docker'.code[w] = IF w = u THEN None ELSE docker.code[w]
    BY <2>1, RemovedEffect
  <2>3. /\ \A v \in Uploads : excuses'[v] = IF v = u /\ Active(v) THEN excuses[v] \cup {"taken"}
                                                                   ELSE excuses[v]
        /\ excuses' \in [Uploads -> SUBSET Excuses]
    BY <1>0, <1>3 DEF Exit, Excuse, TypeOK, Excuses
  <2> QED
    BY <1>0, <1>3, <2>2, <2>3 DEF Exit, TypeOK
<1>4. ASSUME NEW u \in Uploads, Age(u) PROVE Keeps
  BY <1>0, <1>4 DEF Age, TypeOK, Daemons
<1>5. ASSUME Crash PROVE Keeps
  BY <1>0, <1>5 DEF Crash, Fault, Excuse, TypeOK, Excuses, Active, Calls
<1>6. ASSUME JanitorLists PROVE Keeps
  BY <1>0, <1>6 DEF JanitorLists, TypeOK, Daemons
<1>7. ASSUME NEW s \in Submissions, JanitorRemoves(s) PROVE Keeps
  <2>1. docker \in Daemons /\ docker' = Untagged(docker, s)
    BY <1>0, <1>7 DEF JanitorRemoves, TypeOK
  <2>2. /\ docker' \in Daemons /\ docker'.state = docker.state /\ docker'.code = docker.code
        /\ \A t \in Submissions : docker'.tag[t] = IF t = s THEN None ELSE docker.tag[t]
    BY <2>1, UntaggedEffect
  <2>3. /\ \A v \in Uploads : excuses'[v] = IF Active(v) /\ docker.tag[s] = v
                                               THEN excuses[v] \cup {"taken"} ELSE excuses[v]
        /\ excuses' \in [Uploads -> SUBSET Excuses]
    BY <1>0, <1>7 DEF JanitorRemoves, Excuse, TypeOK, Excuses
  <2> QED
    BY <1>0, <1>7, <2>2, <2>3 DEF JanitorRemoves, TypeOK
<1>8. ASSUME UNCHANGED vars PROVE Keeps
  BY <1>0, <1>8 DEF vars, TypeOK
<1> QED
  BY <1>1, <1>2, <1>3, <1>4, <1>5, <1>6, <1>7, <1>8

-----------------------------------------------------------------------------
(* Steps of an upload *)

\* They disturb others only when they overlap, and that is noted.
LEMMA OthersAreUndisturbed ==
    ASSUME SandboxInv, TypeOK', NEW u \in Uploads, Active(u),
           excuses[u] \subseteq excuses'[u],
           \A v \in Uploads \ {u} : pc'[v] = pc[v] /\ excuses'[v] = excuses[v],
           client \ {u} \subseteq client',
           \A s \in Submissions \ {SubmissionOf[u]} : docker'.tag[s] = docker.tag[s],
           \A w \in Uploads \ {u} :
              \/ docker'.state[w] = docker.state[w] /\ docker'.code[w] = docker.code[w]
              \/ docker'.state[w] = "none" /\ SubmissionOf[w] = SubmissionOf[u],
           NamesAndPortsAreTaken', Good(u)'
    PROVE  SandboxInv'
<1>0. TypeOK /\ OverlapsNoted /\ \A v \in Uploads : Good(v)
  BY InvIsGood
<1>1. OverlapsNoted'
  BY <1>0 DEF OverlapsNoted, Active
<1>2. ASSUME NEW v \in Uploads, v # u PROVE Good(v)'
  <2>1. CASE Port(v) # Port(u)
    <3>1. SubmissionOf[v] # SubmissionOf[u] /\ SubmissionOf[v] \in Submissions
      BY <2>1, DockerAssumption DEF Port
    <3>2. \A w \in Uploads : Port(w) = Port(v) =>
             w # u /\ docker'.state[w] = docker.state[w] /\ docker'.code[w] = docker.code[w]
      BY <2>1 DEF Port
    <3>3. \A w \in Uploads : SubmissionOf[w] = SubmissionOf[v] => Port(w) = Port(v)
      BY DEF Port
    <3>4. /\ Listening(docker', Port(v)) = Listening(docker, Port(v))
          /\ Named(docker', SubmissionOf[v]) = Named(docker, SubmissionOf[v])
          /\ docker'.tag[SubmissionOf[v]] = docker.tag[SubmissionOf[v]]
          /\ docker'.state[v] = docker.state[v] /\ docker'.code[v] = docker.code[v]
          /\ \A w \in Listening(docker, Port(v)) : docker'.code[w] = docker.code[w]
      BY <3>1, <3>2, <3>3 DEF Listening, Named, Exists
    <3>5. /\ ItsCodeAnswers(v)' <=> ItsCodeAnswers(v)
          /\ Exists(docker', v) <=> Exists(docker, v)
      BY <3>4 DEF ItsCodeAnswers, Exists
    <3> QED
      BY <1>0, <1>2, <3>4, <3>5 DEF Good
  <2>2. CASE Port(v) = Port(u)
    <3>1. pc[v] \in Calls => "overlap" \in excuses'[v]
      BY <1>0, <1>2, <2>2 DEF OverlapsNoted, Active
    <3>2. Exists(docker', v) => Exists(docker, v)
      BY <1>2 DEF Exists
    <3> QED
      BY <1>0, <1>2, <3>1, <3>2 DEF Good, Calls
  <2> QED
    BY <2>1, <2>2
<1> QED
  BY <1>1, <1>2, InvIsGoodNext

\* The outcomes of a call of the daemon.
CallOutcome(u, can, effect, next, otherwise) ==
    /\ excuses[u] \subseteq excuses'[u]
    /\ \A v \in Uploads \ {u} : pc'[v] = pc[v] /\ excuses'[v] = excuses[v]
    /\ client \ {u} \subseteq client' /\ client' \subseteq client
    /\ u \notin client' => "fault" \in excuses'[u]
    /\ \/ docker' = effect /\ can /\ pc'[u] = next /\ u \in client
       \/ docker' = effect /\ can /\ pc'[u] = otherwise /\ "fault" \in excuses'[u]
       \/ docker' = docker /\ pc'[u] = otherwise /\ (~ can \/ "fault" \in excuses'[u])

LEMMA CallHasOutcome ==
    ASSUME SandboxInv, NEW u \in Uploads, NEW can, NEW effect \in Daemons,
           NEW next \in Calls \cup {"idle", "ok", "failed"},
           NEW otherwise \in Calls \cup {"idle", "ok", "failed"},
           Call(u, can, effect, next, otherwise)
    PROVE  TypeOK' /\ CallOutcome(u, can, effect, next, otherwise)
<1>0. TypeOK /\ Good(u)
  BY InvIsGood
<1>1. /\ pc' \in [Uploads -> Calls \cup {"idle", "ok", "failed"}]
      /\ excuses' \in [Uploads -> SUBSET Excuses]
      /\ excuses[u] \subseteq excuses'[u]
      /\ \A v \in Uploads \ {u} : pc'[v] = pc[v] /\ excuses'[v] = excuses[v]
  BY <1>0 DEF Call, Goto, Excuse, TypeOK, Excuses
<1>2. faults' \in 0..MaxFaults
  BY <1>0, FaultsAssumption DEF Call, Fault, TypeOK
<1>3. docker' \in Daemons /\ client' \subseteq client /\ client \ {u} \subseteq client' /\ sweep' = sweep
  BY <1>0 DEF Call, TypeOK
<1>4. TypeOK'
  BY <1>0, <1>1, <1>2, <1>3 DEF TypeOK
<1>5. u \notin client' => "fault" \in excuses'[u]
  BY <1>0 DEF Call, Goto, Excuse, TypeOK, Good
<1>6. \/ docker' = effect /\ can /\ pc'[u] = next /\ u \in client
      \/ docker' = effect /\ can /\ pc'[u] = otherwise /\ "fault" \in excuses'[u]
      \/ docker' = docker /\ pc'[u] = otherwise /\ (~ can \/ "fault" \in excuses'[u])
  BY <1>0 DEF Call, Goto, Excuse, TypeOK, Good
<1> QED
  BY <1>1, <1>3, <1>4, <1>5, <1>6 DEF CallOutcome

\* Building the image.
LEMMA ImageStepsKeep ==
    ASSUME SandboxInv, NEW u \in Uploads, Untag(u) \/ Build(u) \/ BuildFails(u)
    PROVE  SandboxInv'
<1>0. TypeOK /\ NamesAndPortsAreTaken /\ Good(u) /\ docker \in Daemons
  BY InvIsGood DEF TypeOK
<1>s. SubmissionOf[u] \in Submissions
  BY DockerAssumption
<1> DEFINE s == SubmissionOf[u]
<1>1. CASE Untag(u)
  <2>1. Active(u) /\ pc[u] = "untag"
    BY <1>1 DEF Untag, Active, Calls
  <2>2. /\ Untagged(docker, s) \in Daemons
        /\ Untagged(docker, s).state = docker.state /\ Untagged(docker, s).code = docker.code
        /\ \A t \in Submissions : Untagged(docker, s).tag[t] = IF t = s THEN None ELSE docker.tag[t]
    BY <1>0, <1>s, UntaggedEffect
  <2>3. TypeOK' /\ CallOutcome(u, TRUE, Untagged(docker, s), "build", "build")
    BY <1>1, <2>2, CallHasOutcome DEF Untag, Calls
  <2>4. /\ docker'.state = docker.state /\ docker'.code = docker.code
        /\ \A t \in Submissions \ {s} : docker'.tag[t] = docker.tag[t]
        /\ pc'[u] = "build"
    BY <2>2, <2>3 DEF CallOutcome
  <2>5. NamesAndPortsAreTaken'
    BY <1>0, <2>4, RemovalKeepsNames
  <2>6. Good(u)'
    BY <1>0, <2>1, <2>3, <2>4 DEF Good, CallOutcome, Exists
  <2> QED
    BY <2>1, <2>3, <2>4, <2>5, <2>6, OthersAreUndisturbed DEF CallOutcome
<1>2. CASE Build(u)
  <2>1. Active(u) /\ pc[u] = "build"
    BY <1>2 DEF Build, Active, Calls
  <2>2. /\ Built(docker, u) \in Daemons
        /\ Built(docker, u).state = docker.state /\ Built(docker, u).code = docker.code
        /\ \A t \in Submissions : Built(docker, u).tag[t] = IF t = s THEN u ELSE docker.tag[t]
    BY <1>0, BuiltEffect
  <2>3. TypeOK' /\ CallOutcome(u, TRUE, Built(docker, u), "clear", "failed")
    BY <1>2, <2>2, CallHasOutcome DEF Build, Calls
  <2>4. /\ docker'.state = docker.state /\ docker'.code = docker.code
        /\ \A t \in Submissions \ {s} : docker'.tag[t] = docker.tag[t]
        /\ pc'[u] = "failed" \/ (pc'[u] = "clear" /\ docker'.tag[s] = u)
    BY <1>s, <2>2, <2>3 DEF CallOutcome
  <2>5. NamesAndPortsAreTaken'
    BY <1>0, <2>4, RemovalKeepsNames
  <2>6. Good(u)'
    BY <1>0, <2>1, <2>3, <2>4 DEF Good, CallOutcome, Exists
  <2> QED
    BY <2>1, <2>3, <2>4, <2>5, <2>6, OthersAreUndisturbed DEF CallOutcome
<1>3. CASE BuildFails(u)
  <2>1. /\ Active(u) /\ pc[u] = "build" /\ pc'[u] = "failed" /\ TypeOK'
        /\ \A v \in Uploads \ {u} : pc'[v] = pc[v]
        /\ docker' = docker /\ client' = client /\ excuses' = excuses
    BY <1>0, <1>3 DEF BuildFails, Goto, Active, Calls, TypeOK
  <2>2. NamesAndPortsAreTaken' /\ Good(u)'
    BY <1>0, <2>1, RemovalKeepsNames DEF Good, Exists
  <2> QED
    BY <2>1, <2>2, OthersAreUndisturbed
<1> QED
  BY <1>1, <1>2, <1>3

\* Taking containers away: the old one, or the upload's own.
LEMMA RemovalStepsKeep ==
    ASSUME SandboxInv, NEW u \in Uploads, Clear(u) \/ Stop(u) \/ Discard(u) \/ Undo(u)
    PROVE  SandboxInv'
<1>0. TypeOK /\ NamesAndPortsAreTaken /\ Good(u) /\ docker \in Daemons
  BY InvIsGood DEF TypeOK
<1>1. CASE Clear(u)
  <2> DEFINE gone == Named(docker, SubmissionOf[u])
  <2>1. Active(u) /\ pc[u] = "clear"
    BY <1>1 DEF Clear, Active, Calls
  <2>2. /\ Removed(docker, gone) \in Daemons /\ Removed(docker, gone).tag = docker.tag
        /\ \A w \in Uploads :
              /\ Removed(docker, gone).state[w] = IF w \in gone THEN "none" ELSE docker.state[w]
              /\ Removed(docker, gone).code[w] = IF w \in gone THEN None ELSE docker.code[w]
    BY <1>0, RemovedEffect
  <2>3. TypeOK' /\ CallOutcome(u, TRUE, Removed(docker, gone), "create", "create")
    BY <1>1, <2>2, CallHasOutcome DEF Clear, Calls
  <2>4. /\ docker'.tag = docker.tag
        /\ \A w \in Uploads :
              \/ docker'.state[w] = docker.state[w] /\ docker'.code[w] = docker.code[w]
              \/ docker'.state[w] = "none" /\ SubmissionOf[w] = SubmissionOf[u]
        /\ pc'[u] = "create"
        /\ "fault" \in excuses'[u] \/ docker' = Removed(docker, gone)
    BY <2>2, <2>3 DEF CallOutcome, Named
  <2>5. NamesAndPortsAreTaken'
    BY <1>0, <2>4, RemovalKeepsNames
  <2>6. docker' = Removed(docker, gone) => Named(docker', SubmissionOf[u]) = {}
    BY <2>2 DEF Named, Exists
  <2>7. Good(u)'
    BY <1>0, <2>1, <2>3, <2>4, <2>6 DEF Good, CallOutcome, Exists
  <2> QED
    BY <2>1, <2>3, <2>4, <2>5, <2>7, OthersAreUndisturbed DEF CallOutcome
<1>2. CASE Stop(u) \/ Discard(u) \/ Undo(u)
  <2>1. Active(u) /\ pc[u] \in {"stop", "discard", "undo"}
    BY <1>2 DEF Stop, Discard, Undo, Active, Calls
  <2>2. /\ Removed(docker, {u}) \in Daemons /\ Removed(docker, {u}).tag = docker.tag
        /\ \A w \in Uploads :
              /\ Removed(docker, {u}).state[w] = IF w \in {u} THEN "none" ELSE docker.state[w]
              /\ Removed(docker, {u}).code[w] = IF w \in {u} THEN None ELSE docker.code[w]
    BY <1>0, RemovedEffect
  <2>3. /\ TypeOK'
        /\ \/ CallOutcome(u, docker.state[u] = "running", Removed(docker, {u}), "discard", "discard")
           \/ CallOutcome(u, TRUE, Removed(docker, {u}), "failed", "failed")
    BY <1>2, <2>2, CallHasOutcome DEF Stop, Discard, Undo, Calls
  <2>4. /\ docker'.tag = docker.tag
        /\ \A w \in Uploads \ {u} : docker'.state[w] = docker.state[w] /\ docker'.code[w] = docker.code[w]
        /\ docker'.state[u] \in {docker.state[u], "none"}
        /\ \/ pc'[u] = "discard"
           \/ pc'[u] = "failed" /\ ("fault" \in excuses'[u] \/ docker'.state[u] = "none")
    BY <2>2, <2>3 DEF CallOutcome
  <2>5. NamesAndPortsAreTaken'
    BY <1>0, <2>4, RemovalKeepsNames
  <2>6. Good(u)'
    BY <2>3, <2>4 DEF Good, CallOutcome, Exists
  <2> QED
    BY <2>1, <2>3, <2>4, <2>5, <2>6, OthersAreUndisturbed DEF CallOutcome
<1> QED
  BY <1>1, <1>2

\* Creating and starting the container.
LEMMA ContainerStepsKeep ==
    ASSUME SandboxInv, NEW u \in Uploads, Create(u) \/ Start(u) \/ Connect(u)
    PROVE  SandboxInv'
<1>0. TypeOK /\ NamesAndPortsAreTaken /\ Good(u) /\ docker \in Daemons
  BY InvIsGood DEF TypeOK
<1>s. SubmissionOf[u] \in Submissions
  BY DockerAssumption
<1>1. CASE Create(u)
  <2>1. Active(u) /\ pc[u] = "create"
    BY <1>1 DEF Create, Active, Calls
  <2>2. /\ Created(docker, u) \in Daemons /\ Created(docker, u).tag = docker.tag
        /\ \A w \in Uploads :
              /\ Created(docker, u).state[w] = IF w = u THEN "created" ELSE docker.state[w]
              /\ Created(docker, u).code[w] = IF w = u THEN docker.tag[SubmissionOf[u]] ELSE docker.code[w]
    BY <1>0, CreatedEffect
  <2>3. TypeOK' /\ CallOutcome(u, CanCreate(docker, u), Created(docker, u), "start", "failed")
    BY <1>1, <2>2, CallHasOutcome DEF Create, Calls
  <2>4. /\ docker'.tag = docker.tag
        /\ \A w \in Uploads \ {u} : docker'.state[w] = docker.state[w] /\ docker'.code[w] = docker.code[w]
        /\ \/ docker' = docker /\ pc'[u] = "failed"
           \/ /\ CanCreate(docker, u)
              /\ docker'.state[u] = "created" /\ docker'.code[u] = docker.tag[SubmissionOf[u]]
              /\ pc'[u] = "start" \/ (pc'[u] = "failed" /\ "fault" \in excuses'[u])
    BY <2>2, <2>3 DEF CallOutcome
  <2>5. NamesAndPortsAreTaken'
    <3>1. CASE docker' = docker
      BY <1>0, <3>1 DEF NamesAndPortsAreTaken
    <3>2. CASE CanCreate(docker, u) /\ docker'.state[u] = "created"
      BY <1>0, <2>4, <3>2 DEF NamesAndPortsAreTaken, CanCreate, Named, Exists, Listening
    <3> QED
      BY <2>4, <3>1, <3>2
  <2>6. Good(u)'
    BY <1>0, <2>1, <2>3, <2>4 DEF Good, CallOutcome, CanCreate, Exists
  <2> QED
    BY <2>1, <2>3, <2>4, <2>5, <2>6, OthersAreUndisturbed DEF CallOutcome
<1>2. CASE Start(u)
  <2>1. Active(u) /\ pc[u] = "start"
    BY <1>2 DEF Start, Active, Calls
  <2>2. /\ Started(docker, u) \in Daemons
        /\ Started(docker, u).tag = docker.tag /\ Started(docker, u).code = docker.code
        /\ \A w \in Uploads : Started(docker, u).state[w] = IF w = u THEN "running" ELSE docker.state[w]
    BY <1>0, StartedEffect
  <2>3. TypeOK' /\ CallOutcome(u, CanStart(docker, u), Started(docker, u), "connect", "stop")
    BY <1>2, <2>2, CallHasOutcome DEF Start, Calls
  <2>4. /\ docker'.tag = docker.tag /\ docker'.code = docker.code
        /\ \A w \in Uploads \ {u} : docker'.state[w] = docker.state[w]
        /\ \/ docker' = docker /\ pc'[u] = "stop"
           \/ /\ CanStart(docker, u) /\ docker'.state[u] = "running"
              /\ pc'[u] \in {"connect", "stop"}
    BY <2>2, <2>3 DEF CallOutcome
  <2>5. CanStart(docker, u) /\ docker'.state[u] = "running" => Listening(docker', Port(u)) = {u}
    BY <2>4 DEF CanStart, Listening
  <2>6. NamesAndPortsAreTaken'
    <3>1. CASE docker' = docker
      BY <1>0, <3>1 DEF NamesAndPortsAreTaken
    <3>2. CASE CanStart(docker, u) /\ docker'.state[u] = "running"
      <4>1. \A w \in Uploads : Exists(docker', w) <=> Exists(docker, w)
        BY <2>4, <3>2 DEF CanStart, Exists
      <4>2. \A v, w \in Uploads : {v, w} \subseteq Listening(docker', Port(v)) => v = w
        BY <1>0, <2>4, <2>5, <3>2 DEF NamesAndPortsAreTaken, Listening
      <4> QED
        BY <1>0, <4>1, <4>2 DEF NamesAndPortsAreTaken
    <3> QED
      BY <2>4, <3>1, <3>2
  <2>7. Good(u)'
    BY <1>0, <2>1, <2>3, <2>4, <2>5 DEF Good, CallOutcome, CanStart, Exists, ItsCodeAnswers
  <2> QED
    BY <2>1, <2>3, <2>4, <2>6, <2>7, OthersAreUndisturbed DEF CallOutcome
<1>3. CASE Connect(u)
  <2>1. Active(u) /\ pc[u] = "connect"
    BY <1>3 DEF Connect, Active, Calls
  <2>2. TypeOK' /\ CallOutcome(u, Exists(docker, u), docker, "wait", "stop")
    BY <1>0, <1>3, CallHasOutcome DEF Connect, Calls
  <2>3. docker' = docker /\ pc'[u] \in {"wait", "stop"}
    BY <2>2 DEF CallOutcome
  <2>4. NamesAndPortsAreTaken'
    BY <1>0, <2>3 DEF NamesAndPortsAreTaken
  <2>5. Good(u)'
    BY <1>0, <2>1, <2>2, <2>3 DEF Good, CallOutcome, ItsCodeAnswers, Exists
  <2> QED
    BY <2>1, <2>2, <2>3, <2>4, <2>5, OthersAreUndisturbed DEF CallOutcome
<1> QED
  BY <1>1, <1>2, <1>3

\* The probe and the benchmark, which change nothing in the daemon.
LEMMA AnswerStepsKeep ==
    ASSUME SandboxInv, NEW u \in Uploads, Ready(u) \/ NotReady(u) \/ Trigger(u)
    PROVE  SandboxInv'
<1>0. TypeOK /\ NamesAndPortsAreTaken /\ Good(u)
  BY InvIsGood
<1>1. /\ pc[u] \in {"wait", "trigger"} /\ Active(u)
      /\ docker' = docker /\ client' = client /\ sweep' = sweep
      /\ \A v \in Uploads \ {u} : pc'[v] = pc[v] /\ excuses'[v] = excuses[v]
      /\ excuses[u] \subseteq excuses'[u]
      /\ excuses' \in [Uploads -> SUBSET Excuses]
      /\ pc' \in [Uploads -> Calls \cup {"idle", "ok", "failed"}]
      /\ \/ pc[u] = "wait" /\ pc'[u] \in {"trigger", "ok", "undo"}
         \/ pc'[u] = "ok"
         \/ pc'[u] = "failed" /\ "fault" \in excuses'[u]
  BY <1>0 DEF Ready, NotReady, Trigger, Goto, Excuse, Active, Calls, TypeOK, Excuses
<1>2. faults' \in 0..MaxFaults
  BY <1>0, FaultsAssumption DEF Ready, NotReady, Trigger, Fault, TypeOK
<1>3. TypeOK'
  BY <1>0, <1>1, <1>2 DEF TypeOK
<1>4. NamesAndPortsAreTaken'
  BY <1>0, <1>1 DEF NamesAndPortsAreTaken
<1>5. Good(u)'
  BY <1>0, <1>1 DEF Good
<1> QED
  BY <1>1, <1>3, <1>4, <1>5, OthersAreUndisturbed

LEMMA StepSandbox == SandboxInv /\ [Next]_vars => SandboxInv'
BY ArriveKeeps, SurroundingsKeep, ImageStepsKeep, RemovalStepsKeep, ContainerStepsKeep,
   AnswerStepsKeep DEF Next

-----------------------------------------------------------------------------
\* The state of the daemon and that of the uploads fit together in every
\* reachable state (docker.go:114-211, grpc.go:61-85).
THEOREM SandboxIsConsistent == Spec => []SandboxInv
<1>1. SandboxInv /\ [Next]_vars => SandboxInv'
  BY StepSandbox
<1> QED
  BY InitSandbox, <1>1, PTL DEF Spec

\* A failed upload leaves no container, unless a call failed or its client
\* left (docker.go:195-199, grpc.go:79-82).
THEOREM FailedUploadsLeaveNothing == Spec => []FailedLeaveNothing
<1>1. SandboxInv => FailedLeaveNothing
  BY DEF SandboxInv
<1> QED
  BY SandboxIsConsistent, <1>1, PTL

\* The readiness probe of an upload that shared its port with no other reaches
\* the upload's own code (docker.go:27-38).
THEOREM LoneUploadsAreAnswered == Spec => LoneUploadReachesItsCode
<1>1. ASSUME SandboxInv, NEW u \in Uploads, ProbeAnswered(u), "overlap" \notin excuses[u]
      PROVE  ItsCodeAnswers(u)
  BY <1>1 DEF SandboxInv, LoneUploadHasThePort, ProbeAnswered
<1>2. SandboxInv => \A u \in Uploads :
         ProbeAnswered(u) /\ "overlap" \notin excuses[u] => ItsCodeAnswers(u)
  BY <1>1
<1> QED
  BY SandboxIsConsistent, <1>2, PTL DEF LoneUploadReachesItsCode

\* Between the build and the probe an upload fails for a reason
\* (docker.go:190-209).
THEOREM FailuresHaveReasons == Spec => FailuresAreExplained
<1> DEFINE Explained(u) ==
        pc[u] \in {"create", "start", "connect"} /\ pc'[u] \in {"stop", "failed"} =>
            \/ excuses'[u] # {}
            \/ \E v \in Listening(docker, Port(u)) : SubmissionOf[v] # SubmissionOf[u]
<1>1. ASSUME SandboxInv, [Next]_vars, NEW u \in Uploads, excuses'[u] = {},
             pc[u] \in {"create", "start", "connect"}, pc'[u] \in {"stop", "failed"}
      PROVE  \E v \in Listening(docker, Port(u)) : SubmissionOf[v] # SubmissionOf[u]
  <2>0. TypeOK /\ NamesAndPortsAreTaken /\ Good(u) /\ docker \in Daemons
    BY <1>1, InvIsGood DEF TypeOK
  <2>1. pc'[u] # pc[u]
    BY <1>1
  <2>2. Create(u) \/ Start(u) \/ Connect(u)
    <3>1. ASSUME NEW v \in Uploads, Arrive(v) \/ BuildFails(v) \/ Ready(v) \/ NotReady(v) \/ Trigger(v)
          PROVE  FALSE
      BY <1>1, <2>0, <2>1, <3>1 DEF Arrive, BuildFails, Ready, NotReady, Trigger, Goto, TypeOK
    <3>2. ASSUME NEW v \in Uploads,
                 Untag(v) \/ Build(v) \/ Clear(v) \/ Stop(v) \/ Discard(v) \/ Undo(v)
          PROVE  FALSE
      BY <1>1, <2>0, <2>1, <3>2
         DEF Untag, Build, Clear, Stop, Discard, Undo, Call, Goto, TypeOK
    <3>3. ASSUME NEW v \in Uploads, Create(v) \/ Start(v) \/ Connect(v), v # u
          PROVE  FALSE
      BY <2>0, <2>1, <3>3 DEF Create, Start, Connect, Call, Goto, TypeOK
    <3>4. ~ Crash
      BY <1>1, <2>0 DEF Crash, Excuse, TypeOK, Active, Calls
    <3>5. /\ ~ UNCHANGED vars /\ ~ JanitorLists
          /\ \A v \in Uploads : ~ Leave(v) /\ ~ Exit(v) /\ ~ Age(v)
          /\ \A s \in Submissions : ~ JanitorRemoves(s)
      BY <2>1 DEF vars, JanitorLists, Leave, Exit, Age, JanitorRemoves
    <3> QED
      BY <1>1, <3>1, <3>2, <3>3, <3>4, <3>5 DEF Next
  <2>3. excuses[u] = {} /\ u \in client
    <3>1. \A us, why : Excuse(us, why) => excuses[u] \subseteq excuses'[u]
      BY <2>0 DEF Excuse, TypeOK
    <3>2. excuses[u] \subseteq excuses'[u]
      BY <2>2, <3>1 DEF Create, Start, Connect, Call
    <3> QED
      BY <1>1, <2>0, <3>2 DEF Good
  <2>4. CASE Create(u)
    BY <1>1, <2>0, <2>3, <2>4, DockerAssumption
       DEF Create, Call, Goto, Excuse, TypeOK, Good, CanCreate, Calls
  <2>5. CASE Start(u)
    <3>1. ~ CanStart(docker, u)
      BY <1>1, <2>0, <2>3, <2>5 DEF Start, Call, Goto, Excuse, TypeOK, Calls
    <3>2. docker.state[u] = "created"
      BY <2>0, <2>3, <2>5 DEF Start, Good
    <3>3. PICK v \in Listening(docker, Port(u)) : TRUE
      BY <3>1, <3>2 DEF CanStart
    <3>4. SubmissionOf[v] # SubmissionOf[u]
      BY <2>0, <3>2, <3>3 DEF NamesAndPortsAreTaken, Listening, Exists
    <3> QED
      BY <3>4
  <2>6. CASE Connect(u)
    <3>1. ~ Exists(docker, u)
      BY <1>1, <2>0, <2>3, <2>6 DEF Connect, Call, Goto, Excuse, TypeOK, Calls
    <3> QED
      BY <2>0, <2>3, <2>6, <3>1 DEF Connect, Good, Exists
  <2> QED
    BY <2>2, <2>4, <2>5, <2>6
<1>2. SandboxInv /\ [Next]_vars => \A u \in Uploads : Explained(u)
  BY <1>1
<1> QED
  BY SandboxIsConsistent, <1>2, PTL DEF Spec, FailuresAreExplained

\* A container disappears only when it ends, by its own upload, or by the
\* ContainerRemove of an upload of the same submission (docker.go:161).
THEOREM SuccessorsRemove == Spec => OnlySuccessorsRemove
<1> DEFINE Fair(w) ==
        Exists(docker, w) /\ ~ Exists(docker, w)' =>
            \/ docker.state[w] = "running" /\ UNCHANGED pc
            \/ pc'[w] # pc[w]
            \/ \E u \in Uploads : /\ SubmissionOf[u] = SubmissionOf[w]
                                  /\ pc[u] = "clear" /\ pc'[u] = "create"
<1>1. ASSUME SandboxInv, [Next]_vars, NEW w \in Uploads, Exists(docker, w), ~ Exists(docker', w)
      PROVE  \/ docker.state[w] = "running" /\ UNCHANGED pc
             \/ pc'[w] # pc[w]
             \/ \E u \in Uploads : /\ SubmissionOf[u] = SubmissionOf[w]
                                   /\ pc[u] = "clear" /\ pc'[u] = "create"
  <2>0. TypeOK /\ docker \in Daemons /\ pc \in [Uploads -> Calls \cup {"idle", "ok", "failed"}]
    BY <1>1 DEF SandboxInv, TypeOK
  <2>1. docker'.state[w] # docker.state[w]
    BY <1>1 DEF Exists
  <2>2. ASSUME NEW gone, docker' = Removed(docker, gone) PROVE w \in gone
    BY <2>0, <2>1, <2>2, RemovedEffect
  <2>3. ASSUME NEW u \in Uploads, Clear(u)
        PROVE  SubmissionOf[u] = SubmissionOf[w] /\ pc[u] = "clear" /\ pc'[u] = "create"
    BY <2>0, <2>1, <2>2, <2>3 DEF Clear, Call, Goto, Named
  <2>4. ASSUME NEW u \in Uploads, Stop(u) \/ Discard(u) \/ Undo(u)
        PROVE  pc'[w] # pc[w]
    BY <2>0, <2>1, <2>2, <2>4 DEF Stop, Discard, Undo, Call, Goto
  <2>5. ASSUME NEW u \in Uploads, Exit(u)
        PROVE  docker.state[w] = "running" /\ UNCHANGED pc
    BY <2>1, <2>2, <2>5 DEF Exit
  <2>6. ASSUME NEW u \in Uploads, Untag(u) \/ Build(u) PROVE FALSE
    BY <2>0, <2>1, <2>6, UntaggedEffect, BuiltEffect, DockerAssumption DEF Untag, Build, Call
  <2>7. ASSUME NEW u \in Uploads, Create(u) \/ Start(u) \/ Connect(u) PROVE FALSE
    <3>1. docker' \in {docker, Created(docker, u), Started(docker, u)}
      BY <2>7 DEF Create, Start, Connect, Call
    <3>2. Created(docker, u).state[w] \in {docker.state[w], "created"}
      <4>1. Created(docker, u).state[w] = IF w = u THEN "created" ELSE docker.state[w]
        BY <2>0, CreatedEffect
      <4> QED
        BY <4>1
    <3>3. Started(docker, u).state[w] \in {docker.state[w], "running"}
      <4>1. Started(docker, u).state[w] = IF w = u THEN "running" ELSE docker.state[w]
        BY <2>0, StartedEffect
      <4> QED
        BY <4>1
    <3> QED
      BY <1>1, <2>1, <3>1, <3>2, <3>3 DEF Exists
  <2>8. ASSUME NEW s \in Submissions, JanitorRemoves(s) PROVE FALSE
    BY <2>0, <2>1, <2>8, UntaggedEffect DEF JanitorRemoves
  <2>9. /\ ~ UNCHANGED vars /\ ~ JanitorLists /\ ~ Crash
        /\ \A u \in Uploads : ~ Arrive(u) /\ ~ BuildFails(u) /\ ~ Leave(u)
        /\ \A u \in Uploads : ~ Ready(u) /\ ~ NotReady(u) /\ ~ Trigger(u)
    BY <2>1 DEF vars, JanitorLists, Crash, Arrive, BuildFails, Ready, NotReady, Trigger, Leave
  <2>10. ASSUME NEW u \in Uploads, Age(u) PROVE FALSE
    BY <2>0, <2>1, <2>10 DEF Age, Daemons
  <2> QED
    BY <1>1, <2>3, <2>4, <2>5, <2>6, <2>7, <2>8, <2>9, <2>10 DEF Next
<1>2. SandboxInv /\ [Next]_vars => \A w \in Uploads : Fair(w)
  BY <1>1
<1> QED
  BY SandboxIsConsistent, <1>2, PTL DEF Spec, OnlySuccessorsRemove
=============================================================================
