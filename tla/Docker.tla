------------------------------- MODULE Docker -------------------------------
(***************************************************************************)
(* The Docker daemon as cmd/sandbox uses it: one image tag and one         *)
(* container name per submission, a host port per running container.       *)
(* The state of the daemon is a record                                     *)
(*   tag    which upload's code the tag of each submission names           *)
(*   old    submissions whose tag names an image older than an hour        *)
(*   state  the container made by each upload: "none" when there is none   *)
(*   code   the upload whose code that container runs                      *)
(* A container is called by the upload that made it, as by its id.         *)
(***************************************************************************)
CONSTANTS Uploads,       \* uploads and executions
          Submissions,   \* submission ids
          Ports,         \* host ports
          SubmissionOf,  \* [Uploads -> Submissions]
          PortOf,        \* [Submissions -> Ports]: getDeterministicPort
          None

ASSUME DockerAssumption ==
    /\ SubmissionOf \in [Uploads -> Submissions]
    /\ PortOf \in [Submissions -> Ports]
    /\ None \notin Uploads

ContainerStates == {"none", "created", "running"}

Daemons == [tag : [Submissions -> Uploads \cup {None}], old : SUBSET Submissions,
            state : [Uploads -> ContainerStates], code : [Uploads -> Uploads \cup {None}]]

NothingDeployed ==
    [tag |-> [s \in Submissions |-> None], old |-> {},
     state |-> [u \in Uploads |-> "none"], code |-> [u \in Uploads |-> None]]

Port(u) == PortOf[SubmissionOf[u]]
Exists(d, u) == d.state[u] # "none"
Named(d, s) == {u \in Uploads : SubmissionOf[u] = s /\ Exists(d, u)}
Listening(d, port) == {u \in Uploads : d.state[u] = "running" /\ Port(u) = port}

\* ImageRemove by tag, with force: the name is gone, whatever it named.
Untagged(d, s) == [d EXCEPT !.tag[s] = None, !.old = @ \ {s}]

\* ImageBuild with a tag.
Built(d, u) == [d EXCEPT !.tag[SubmissionOf[u]] = u, !.old = @ \ {SubmissionOf[u]}]

\* ContainerCreate: there must be an image, and the name must be free.
CanCreate(d, u) == d.tag[SubmissionOf[u]] # None /\ Named(d, SubmissionOf[u]) = {}
Created(d, u) == [d EXCEPT !.state[u] = "created", !.code[u] = d.tag[SubmissionOf[u]]]

\* ContainerStart: the container must be there, and its host port free.
CanStart(d, u) == d.state[u] = "created" /\ Listening(d, Port(u)) = {}
Started(d, u) == [d EXCEPT !.state[u] = "running"]

\* ContainerRemove with force, and the end of a container with AutoRemove.
Removed(d, gone) ==
    [d EXCEPT !.state = [u \in Uploads |-> IF u \in gone THEN "none" ELSE @[u]],
              !.code = [u \in Uploads |-> IF u \in gone THEN None ELSE @[u]]]
=============================================================================
