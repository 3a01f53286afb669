--------------------------- MODULE LiveFeedProofs ---------------------------
(***************************************************************************)
(* For any browsers, replicas, buffers and faults: a connection that was   *)
(* closed is in no registry but for the moment before it is deleted, and   *)
(* boards stay in order on their way to a page.                            *)
(***************************************************************************)
EXTENDS LiveFeed, SequenceTheorems, TLAPS

\* RegistryInv without the types.
Registered ==
    /\ ClosedAreLeaving
    /\ \A r \in Replicas : \A c \in clients[r] :
          at[c] = r /\ handler[c] \in {"reading", "leaving"}
    /\ \A r \in Replicas : \A c \in targets[r] \cup failing[r] :
          at[c] = r /\ handler[c] \notin {"none", "upgraded"}
    /\ \A r \in Replicas : failing[r] \subseteq closed
    /\ \A c \in Conns : handler[c] \in {"none", "upgraded"} => c \notin closed

LEMMA RegistryParts == RegistryInv <=> TypeOK /\ Registered
BY DEF RegistryInv, Registered

LEMMA RegistryPartsNext == RegistryInv' <=> TypeOK' /\ Registered'
BY RegistryParts, PTL

LEMMA InitRegistry == Init => RegistryInv
<1> SUFFICES ASSUME Init PROVE TypeOK /\ Registered
  BY RegistryParts
<1> USE FeedAssumption DEF Init
<1>1. TypeOK
  BY DEF TypeOK, HandlerStates, PeerStates
<1>2. Registered
  BY DEF Registered, ClosedAreLeaving
<1> QED
  BY <1>1, <1>2

-----------------------------------------------------------------------------
(* Types, for the steps of each part *)

LEMMA QueueTypes ==
    ASSUME NEW S, NEW q \in Seq(S)
    PROVE  /\ \A e \in S : Append(q, e) \in Seq(S)
           /\ q # <<>> => Head(q) \in S /\ Tail(q) \in Seq(S)
BY HeadTailProperties, AppendProperties

LEMMA ChannelTypes ==
    ASSUME TypeOK, NEW r \in Replicas,
           Publish \/ Unsubscribe(r) \/ Resubscribe(r) \/ Receive(r)
    PROVE  TypeOK'
<1> USE FeedAssumption
<1>1. CASE Publish
  <2>1. version' \in 0..MaxVersion
    BY <1>1 DEF Publish
  <2>2. inbox' \in [Replicas -> Seq(0..MaxVersion)]
    <3>1. \A q \in Replicas : inbox[q] \in Seq(0..MaxVersion)
      BY DEF TypeOK
    <3>2. \A q \in Replicas : Append(inbox[q], version') \in Seq(0..MaxVersion)
      BY <2>1, <3>1, QueueTypes
    <3>3. inbox' = [q \in Replicas |->
                      IF q \in subscribed THEN Append(inbox[q], version') ELSE inbox[q]]
      BY <1>1 DEF Publish
    <3> QED
      BY <3>1, <3>2, <3>3, Zenon
  <2> QED
    BY <1>1, <2>1, <2>2 DEF Publish, TypeOK, registryVars, pageVars
<1>2. CASE Unsubscribe(r)
  BY <1>2 DEF Unsubscribe, Fault, TypeOK, registryVars, pageVars
<1>3. CASE Resubscribe(r)
  BY <1>3 DEF Resubscribe, TypeOK, registryVars, pageVars
<1>4. CASE Receive(r)
  <2>1. inbox[r] \in Seq(0..MaxVersion) /\ inbox[r] # <<>>
    BY <1>4 DEF Receive, TypeOK
  <2>2. Head(inbox[r]) \in 0..MaxVersion /\ Tail(inbox[r]) \in Seq(0..MaxVersion)
    BY <2>1, QueueTypes
  <2> QED
    BY <1>4, <2>2 DEF Receive, TypeOK, pageVars
<1> QED
  BY <1>1, <1>2, <1>3, <1>4

LEMMA BroadcastTypes ==
    ASSUME TypeOK, NEW r \in Replicas, NEW c \in Conns,
           Write(r, c) \/ WriteError(r, c) \/ Delete(r) \/ Crash(r)
    PROVE  TypeOK'
<1> USE FeedAssumption
<1>1. CASE Write(r, c)
  <2>1. Append(buffer[c], msg[r]) \in Seq(0..MaxVersion)
    BY QueueTypes DEF TypeOK
  <2>2. buffer' \in [Conns -> Seq(0..MaxVersion)]
    BY <1>1, <2>1 DEF Write, TypeOK
  <2> QED
    BY <1>1, <2>2 DEF Write, TypeOK, pageVars
<1>2. CASE WriteError(r, c)
  BY <1>2 DEF WriteError, TypeOK, pageVars
<1>3. CASE Delete(r)
  BY <1>3 DEF Delete, TypeOK, pageVars
<1>4. CASE Crash(r)
  BY <1>4 DEF Crash, Fault, TypeOK, pageVars, HandlerStates
<1> QED
  BY <1>1, <1>2, <1>3, <1>4

LEMMA HandlerTypes ==
    ASSUME TypeOK, NEW c \in Conns,
           Register(c) \/ ReadFails(c) \/ Forget(c) \/ Close(c)
    PROVE  TypeOK'
<1>1. handler' \in [Conns -> HandlerStates]
  BY DEF Register, ReadFails, Forget, Close, HandlerGoes, TypeOK, HandlerStates
<1>2. clients' \in [Replicas -> SUBSET Conns] /\ closed' \subseteq Conns
  <2>1. clients \in [Replicas -> SUBSET Conns] /\ closed \subseteq Conns
    BY DEF TypeOK
  <2>2. CASE Register(c) \/ Forget(c)
    BY <2>1, <2>2 DEF Register, Forget
  <2>3. CASE ReadFails(c) \/ Close(c)
    BY <2>1, <2>3 DEF ReadFails, Close
  <2> QED
    BY <2>2, <2>3
<1>3. UNCHANGED NotHandlers
  BY DEF Register, ReadFails, Forget, Close
<1> QED
  BY <1>1, <1>2, <1>3 DEF TypeOK, NotHandlers, pageVars

LEMMA PageTypes ==
    ASSUME TypeOK, NEW c \in Conns, NEW b \in Browsers,
           \/ Connect(b) \/ Display(c) \/ SeesClose(c) \/ Disconnect(c) \/ Suspend(c)
           \/ Resume(c) \/ UNCHANGED vars
    PROVE  TypeOK'
<1> USE FeedAssumption
<1>1. CASE Connect(b)
  <2>1. made[b] + 1 \in 0..(MaxFaults + 1) /\ <<b, made[b] + 1>> \in Conns
    BY <1>1 DEF Connect, TypeOK, Conns
  <2>2. made' \in [Browsers -> 0..(MaxFaults + 1)]
    <3>1. made \in [Browsers -> 0..(MaxFaults + 1)] /\ made' = [made EXCEPT ![b] = made[b] + 1]
      BY <1>1 DEF Connect, TypeOK
    <3> QED
      BY <2>1, <3>1, Zenon
  <2>3. at' \in [Conns -> Replicas]
    BY <1>1, <2>1 DEF Connect, TypeOK
  <2>4. peer' \in [Conns -> PeerStates] /\ handler' \in [Conns -> HandlerStates]
    BY <1>1, <2>1 DEF Connect, HandlerGoes, TypeOK, HandlerStates, PeerStates
  <2> QED
    BY <1>1, <2>2, <2>3, <2>4 DEF Connect, NotPages, TypeOK
<1>2. CASE Display(c)
  <2>1. buffer[c] \in Seq(0..MaxVersion) /\ buffer[c] # <<>>
    BY <1>2 DEF Display, TypeOK
  <2>2. Head(buffer[c]) \in 0..MaxVersion /\ Tail(buffer[c]) \in Seq(0..MaxVersion)
    BY <2>1, QueueTypes
  <2> QED
    BY <1>2, <2>2 DEF Display, NotPages, pageVars, TypeOK
<1>3. CASE SeesClose(c)
  BY <1>3 DEF SeesClose, NotPages, TypeOK, PeerStates
<1>4. CASE Disconnect(c) \/ Suspend(c) \/ Resume(c)
  <2>1. peer' \in [Conns -> PeerStates]
    BY <1>4 DEF Disconnect, Suspend, Resume, TypeOK, PeerStates
  <2>2. buffer' \in [Conns -> Seq(0..MaxVersion)]
    <3>1. buffer \in [Conns -> Seq(0..MaxVersion)] /\ <<>> \in Seq(0..MaxVersion)
      BY EmptySeq DEF TypeOK
    <3>2. buffer' = buffer \/ buffer' = [buffer EXCEPT ![c] = <<>>]
      BY <1>4 DEF Disconnect, Suspend, Resume
    <3> QED
      BY <3>1, <3>2, Zenon
  <2>3. faults' \in 0..MaxFaults
    BY <1>4 DEF Disconnect, Suspend, Resume, Fault, TypeOK
  <2>4. UNCHANGED <<NotPages, handler, at, made, displayed>>
    BY <1>4 DEF Disconnect, Suspend, Resume
  <2> QED
    BY <2>1, <2>2, <2>3, <2>4 DEF NotPages, TypeOK
<1>5. CASE UNCHANGED vars
  BY <1>5 DEF vars, registryVars, pageVars, TypeOK
<1> QED
  BY <1>1, <1>2, <1>3, <1>4, <1>5

-----------------------------------------------------------------------------
(* The registry *)

\* The broadcaster and crashes of its replica.
LEMMA BroadcastKeepsRegistry ==
    ASSUME TypeOK, Registered, NEW r \in Replicas,
           \/ Receive(r) \/ Delete(r) \/ Crash(r)
           \/ \E c \in Conns : Write(r, c) \/ WriteError(r, c)
    PROVE  Registered'
<1>1. CASE Receive(r)
  <2>1. /\ targets'[r] = clients[r] /\ \A q \in Replicas \ {r} : targets'[q] = targets[q]
        /\ UNCHANGED <<clients, failing, handler, closed, at>>
    BY <1>1 DEF Receive, pageVars, TypeOK
  <2>2. \A q \in Replicas : \A c \in targets'[q] \cup failing'[q] :
           at'[c] = q /\ handler'[c] \notin {"none", "upgraded"}
    <3>1. \A c \in clients[r] : at[c] = r /\ handler[c] \notin {"none", "upgraded"}
      BY DEF Registered
    <3> QED
      BY <2>1, <3>1 DEF Registered
  <2> QED
    BY <2>1, <2>2 DEF Registered, ClosedAreLeaving
<1>2. CASE Delete(r)
  <2>1. /\ clients' = [clients EXCEPT ![r] = clients[r] \ failing[r]]
        /\ failing' = [failing EXCEPT ![r] = {}]
        /\ UNCHANGED <<targets, handler, closed, at>>
    BY <1>2 DEF Delete, pageVars
  <2> QED
    BY <2>1 DEF Registered, ClosedAreLeaving, TypeOK
<1>3. CASE Crash(r)
  <2> DEFINE lost == {c \in Conns : at[c] = r /\ handler[c] # "none"}
  <2>1. /\ clients' = [clients EXCEPT ![r] = {}]
        /\ targets' = [targets EXCEPT ![r] = {}]
        /\ failing' = [failing EXCEPT ![r] = {}]
        /\ handler' = [c \in Conns |-> IF c \in lost THEN "done" ELSE handler[c]]
        /\ closed' = closed \cup lost /\ at' = at
    BY <1>3 DEF Crash, pageVars
  <2>2. \A q \in Replicas \ {r} :
           /\ clients'[q] = clients[q] /\ targets'[q] = targets[q] /\ failing'[q] = failing[q]
           /\ \A c \in clients[q] \cup targets[q] \cup failing[q] : c \notin lost
    BY <2>1 DEF Registered, TypeOK
  <2>3. clients'[r] = {} /\ targets'[r] = {} /\ failing'[r] = {}
    BY <2>1 DEF TypeOK
  <2>4. ClosedAreLeaving'
    BY <2>1, <2>2, <2>3 DEF Registered, ClosedAreLeaving, TypeOK
  <2>5. \A q \in Replicas : \A c \in clients'[q] :
           at'[c] = q /\ handler'[c] \in {"reading", "leaving"}
    BY <2>1, <2>2, <2>3 DEF Registered, TypeOK
  <2>6. \A q \in Replicas : \A c \in targets'[q] \cup failing'[q] :
           at'[c] = q /\ handler'[c] \notin {"none", "upgraded"}
    BY <2>1, <2>2, <2>3 DEF Registered, TypeOK
  <2>7. \A q \in Replicas : failing'[q] \subseteq closed'
    BY <2>1, <2>2, <2>3 DEF Registered
  <2>8. \A c \in Conns : handler'[c] \in {"none", "upgraded"} => c \notin closed'
    BY <2>1 DEF Registered
  <2> QED
    BY <2>4, <2>5, <2>6, <2>7, <2>8 DEF Registered
<1>4. ASSUME NEW c \in Conns, Write(r, c) PROVE Registered'
  <2>1. /\ targets' = [targets EXCEPT ![r] = targets[r] \ {c}]
        /\ UNCHANGED <<clients, failing, handler, closed, at>>
    BY <1>4 DEF Write, pageVars
  <2> QED
    BY <2>1 DEF Registered, ClosedAreLeaving, TypeOK
<1>5. ASSUME NEW c \in Conns, WriteError(r, c) PROVE Registered'
  <2>1. /\ c \in targets[r] /\ failing[r] = {}
        /\ targets' = [targets EXCEPT ![r] = targets[r] \ {c}]
        /\ closed' = closed \cup {c}
        /\ failing' = [failing EXCEPT ![r] = {c}]
        /\ UNCHANGED <<clients, handler, at>>
    BY <1>5 DEF WriteError, pageVars
  <2>2. at[c] = r /\ handler[c] \notin {"none", "upgraded"}
    BY <2>1 DEF Registered
  <2>3. failing'[r] = {c} /\ \A q \in Replicas \ {r} : failing'[q] = failing[q] /\ c \notin clients[q]
    BY <2>1, <2>2 DEF Registered, TypeOK
  <2>4. ClosedAreLeaving'
    BY <2>1, <2>3 DEF Registered, ClosedAreLeaving
  <2>5. \A q \in Replicas : \A e \in targets'[q] \cup failing'[q] :
           at'[e] = q /\ handler'[e] \notin {"none", "upgraded"}
    BY <2>1, <2>2, <2>3 DEF Registered, TypeOK
  <2>6. \A q \in Replicas : failing'[q] \subseteq closed'
    BY <2>1, <2>3 DEF Registered
  <2> QED
    BY <2>1, <2>2, <2>4, <2>5, <2>6 DEF Registered
<1> QED
  BY <1>1, <1>2, <1>3, <1>4, <1>5

\* A handler registers its connection before it can be closed, and deletes it
\* before it closes it.
LEMMA HandlerKeepsRegistry ==
    ASSUME TypeOK, Registered, NEW c \in Conns,
           Register(c) \/ ReadFails(c) \/ Forget(c) \/ Close(c)
    PROVE  Registered'
<1>0. /\ UNCHANGED <<targets, failing, at>>
      /\ handler[c] \in HandlerStates /\ at[c] \in Replicas
      /\ \A e \in Conns \ {c} : handler'[e] = handler[e]
  BY DEF Register, ReadFails, Forget, Close, HandlerGoes, NotHandlers, pageVars, TypeOK
<1>1. CASE Register(c)
  <2>1. /\ handler[c] = "upgraded" /\ handler'[c] = "reading" /\ closed' = closed
        /\ clients'[at[c]] = clients[at[c]] \cup {c}
        /\ \A q \in Replicas \ {at[c]} : clients'[q] = clients[q]
    BY <1>0, <1>1 DEF Register, HandlerGoes, TypeOK
  <2>2. c \notin closed
    BY <2>1 DEF Registered
  <2>3. ClosedAreLeaving'
    BY <1>0, <2>1, <2>2 DEF Registered, ClosedAreLeaving
  <2>4. \A q \in Replicas : \A e \in clients'[q] :
           at'[e] = q /\ handler'[e] \in {"reading", "leaving"}
    <3> SUFFICES ASSUME NEW q \in Replicas, NEW e \in clients'[q]
                 PROVE  at[e] = q /\ handler'[e] \in {"reading", "leaving"}
      BY <1>0
    <3>1. e \in Conns /\ (e # c => e \in clients[q]) /\ (e \in clients[q] \/ at[c] = q)
      BY <1>0, <2>1, <2>2 DEF TypeOK
    <3> QED
      BY <1>0, <2>1, <2>2, <3>1 DEF Registered
  <2>5. \A q \in Replicas : \A e \in targets'[q] \cup failing'[q] :
           at'[e] = q /\ handler'[e] \notin {"none", "upgraded"}
    BY <1>0, <2>1, <2>2 DEF Registered, TypeOK
  <2> QED
    BY <1>0, <2>1, <2>2, <2>3, <2>4, <2>5 DEF Registered
<1>2. CASE ReadFails(c)
  <2>1. /\ handler[c] = "reading" /\ handler'[c] = "leaving" /\ closed' = closed
        /\ clients' = clients
    BY <1>2 DEF ReadFails, HandlerGoes, TypeOK
  <2>2. ClosedAreLeaving'
    BY <1>0, <2>1 DEF Registered, ClosedAreLeaving
  <2>3. \A q \in Replicas : \A e \in clients'[q] :
           at'[e] = q /\ handler'[e] \in {"reading", "leaving"}
    <3> SUFFICES ASSUME NEW q \in Replicas, NEW e \in clients'[q]
                 PROVE  at[e] = q /\ handler'[e] \in {"reading", "leaving"}
      BY <1>0
    <3>1. e \in Conns /\ (e # c => e \in clients[q]) /\ (e \in clients[q] \/ at[c] = q)
      BY <1>0, <2>1 DEF TypeOK
    <3> QED
      BY <1>0, <2>1, <3>1 DEF Registered
  <2>4. \A q \in Replicas : \A e \in targets'[q] \cup failing'[q] :
           at'[e] = q /\ handler'[e] \notin {"none", "upgraded"}
    BY <1>0, <2>1 DEF Registered, TypeOK
  <2> QED
    BY <1>0, <2>1, <2>2, <2>3, <2>4 DEF Registered
<1>3. CASE Forget(c)
  <2>1. /\ handler[c] = "leaving" /\ handler'[c] = "forgotten" /\ closed' = closed
        /\ clients'[at[c]] = clients[at[c]] \ {c}
        /\ \A q \in Replicas \ {at[c]} : clients'[q] = clients[q]
    BY <1>0, <1>3 DEF Forget, HandlerGoes, TypeOK
  <2>2. ClosedAreLeaving'
    BY <1>0, <2>1 DEF Registered, ClosedAreLeaving
  <2>3. \A q \in Replicas : \A e \in clients'[q] :
           at'[e] = q /\ handler'[e] \in {"reading", "leaving"}
    <3> SUFFICES ASSUME NEW q \in Replicas, NEW e \in clients'[q]
                 PROVE  at[e] = q /\ handler'[e] \in {"reading", "leaving"}
      BY <1>0
    <3>1. e \in Conns /\ (e # c => e \in clients[q]) /\ (e \in clients[q] \/ at[c] = q)
      BY <1>0, <2>1 DEF TypeOK
    <3> QED
      BY <1>0, <2>1, <3>1 DEF Registered
  <2>4. \A q \in Replicas : \A e \in targets'[q] \cup failing'[q] :
           at'[e] = q /\ handler'[e] \notin {"none", "upgraded"}
    BY <1>0, <2>1 DEF Registered, TypeOK
  <2> QED
    BY <1>0, <2>1, <2>2, <2>3, <2>4 DEF Registered
<1>4. CASE Close(c)
  <2>1. /\ handler[c] = "forgotten" /\ handler'[c] = "done" /\ closed' = closed \cup {c}
        /\ clients' = clients
    BY <1>4 DEF Close, HandlerGoes, TypeOK
  <2>2. \A q \in Replicas : c \notin clients[q]
    BY <2>1 DEF Registered
  <2>3. ClosedAreLeaving'
    BY <1>0, <2>1, <2>2 DEF Registered, ClosedAreLeaving
  <2>4. \A q \in Replicas : \A e \in clients'[q] :
           at'[e] = q /\ handler'[e] \in {"reading", "leaving"}
    <3> SUFFICES ASSUME NEW q \in Replicas, NEW e \in clients'[q]
                 PROVE  at[e] = q /\ handler'[e] \in {"reading", "leaving"}
      BY <1>0
    <3>1. e \in Conns /\ (e # c => e \in clients[q]) /\ (e \in clients[q] \/ at[c] = q)
      BY <1>0, <2>1, <2>2 DEF TypeOK
    <3> QED
      BY <1>0, <2>1, <2>2, <3>1 DEF Registered
  <2>5. \A q \in Replicas : \A e \in targets'[q] \cup failing'[q] :
           at'[e] = q /\ handler'[e] \notin {"none", "upgraded"}
    BY <1>0, <2>1, <2>2 DEF Registered, TypeOK
  <2> QED
    BY <1>0, <2>1, <2>2, <2>3, <2>4, <2>5 DEF Registered
<1> QED
  BY <1>1, <1>2, <1>3, <1>4

\* A new connection was in no registry; other steps leave registries alone.
LEMMA ConnectKeepsRegistry ==
    ASSUME TypeOK, Registered, NEW b \in Browsers, Connect(b)
    PROVE  Registered'
<1> DEFINE c == <<b, made[b] + 1>>
<1>1. c \in Conns
  BY FeedAssumption DEF Connect, TypeOK, Conns
<1>2. /\ handler[c] = "none" /\ handler'[c] = "upgraded"
      /\ \A e \in Conns \ {c} : handler'[e] = handler[e] /\ at'[e] = at[e]
      /\ UNCHANGED <<clients, targets, failing, closed>>
  BY <1>1 DEF Connect, HandlerGoes, NotPages, TypeOK
<1>3. \A r \in Replicas : c \notin clients[r] \cup targets[r] \cup failing[r]
  BY <1>1, <1>2 DEF Registered
<1> HIDE DEF c
<1>4. \A r \in Replicas : \A e \in clients[r] \cup targets[r] \cup failing[r] :
         e \in Conns \ {c}
  BY <1>3 DEF TypeOK
<1>5. ClosedAreLeaving'
  BY <1>2 DEF Registered, ClosedAreLeaving
<1>6. \A r \in Replicas : \A e \in clients'[r] :
         at'[e] = r /\ handler'[e] \in {"reading", "leaving"}
  BY <1>2, <1>4 DEF Registered
<1>7. \A r \in Replicas : \A e \in targets'[r] \cup failing'[r] :
         at'[e] = r /\ handler'[e] \notin {"none", "upgraded"}
  BY <1>2, <1>4 DEF Registered
<1>8. \A r \in Replicas : failing'[r] \subseteq closed'
  BY <1>2 DEF Registered
<1>9. \A e \in Conns : handler'[e] \in {"none", "upgraded"} => e \notin closed'
  BY <1>1, <1>2 DEF Registered
<1> QED
  BY <1>5, <1>6, <1>7, <1>8, <1>9 DEF Registered

LEMMA StepRegistry == RegistryInv /\ [Next]_vars => RegistryInv'
<1> SUFFICES ASSUME TypeOK, Registered, [Next]_vars PROVE TypeOK' /\ Registered'
  BY RegistryParts, RegistryPartsNext
<1>1. ASSUME NEW r \in Replicas,
             \/ Receive(r) \/ Delete(r) \/ Crash(r)
             \/ \E c \in Conns : Write(r, c) \/ WriteError(r, c)
      PROVE  TypeOK' /\ Registered'
  <2>1. Registered'
    BY <1>1, BroadcastKeepsRegistry
  <2>2. CASE Receive(r)
    BY <2>1, <2>2, ChannelTypes
  <2>3. CASE \E c \in Conns : Write(r, c) \/ WriteError(r, c)
    BY <2>1, <2>3, BroadcastTypes
  <2>4. CASE Delete(r)
    BY <2>4, <2>1 DEF Delete, TypeOK, pageVars
  <2>5. CASE Crash(r)
    BY <2>5, <2>1, FeedAssumption DEF Crash, Fault, TypeOK, pageVars, HandlerStates
  <2> QED
    BY <1>1, <2>2, <2>3, <2>4, <2>5
<1>2. ASSUME NEW c \in Conns, Register(c) \/ ReadFails(c) \/ Forget(c) \/ Close(c)
      PROVE  TypeOK' /\ Registered'
  BY <1>2, HandlerKeepsRegistry, HandlerTypes
<1>3. ASSUME NEW b \in Browsers, Connect(b) PROVE TypeOK' /\ Registered'
  <2>1. <<b, 1>> \in Conns
    BY FeedAssumption DEF Conns
  <2> QED
    BY <1>3, <2>1, ConnectKeepsRegistry, PageTypes
<1>4. ASSUME NEW c \in Conns,
             \/ Display(c) \/ SeesClose(c) \/ Disconnect(c) \/ Suspend(c) \/ Resume(c)
      PROVE  TypeOK' /\ Registered'
  <2>1. PICK b \in Browsers : TRUE
    BY DEF Conns
  <2>2. UNCHANGED <<clients, targets, failing, closed, handler, at>>
    BY <1>4 DEF Display, SeesClose, Disconnect, Suspend, Resume, NotPages, pageVars
  <2>3. Registered'
    BY <2>2 DEF Registered, ClosedAreLeaving
  <2> QED
    BY <1>4, <2>1, <2>3, PageTypes
<1>5. ASSUME NEW r \in Replicas, Publish \/ Unsubscribe(r) \/ Resubscribe(r)
      PROVE  TypeOK' /\ Registered'
  <2>1. UNCHANGED <<clients, targets, failing, closed, handler, at>>
    BY <1>5 DEF Publish, Unsubscribe, Resubscribe, registryVars, pageVars
  <2>2. Registered'
    BY <2>1 DEF Registered, ClosedAreLeaving
  <2> QED
    BY <1>5, <2>2, ChannelTypes
<1>6. CASE UNCHANGED vars
  <2>1. UNCHANGED <<clients, targets, failing, closed, handler, at>>
    BY <1>6 DEF vars, registryVars, pageVars
  <2> QED
    BY <1>6, <2>1 DEF vars, registryVars, pageVars, TypeOK, Registered, ClosedAreLeaving
<1>7. Publish => TypeOK' /\ Registered'
  BY <1>5, FeedAssumption
<1> QED
  BY <1>1, <1>2, <1>3, <1>4, <1>5, <1>6, <1>7 DEF Next

-----------------------------------------------------------------------------
\* Registries, broadcasters and handlers agree about every connection
\* (ws.go:39-56, 69-78).
THEOREM RegistryIsConsistent == Spec => []RegistryInv
BY InitRegistry, StepRegistry, PTL DEF Spec

\* A connection that was closed is in a registry at most until the broadcaster
\* that closed it deletes it (ws.go:52-55, 69-74).
THEOREM ClosedConnectionsLeave == Spec => []ClosedAreLeaving
<1>1. RegistryInv => ClosedAreLeaving
  BY DEF RegistryInv
<1> QED
  BY RegistryIsConsistent, <1>1, PTL

-----------------------------------------------------------------------------
(* The order of boards *)

LEMMA OrderedQueues ==
    ASSUME NEW q \in Seq(Nat), NEW lo \in Nat, NEW hi \in Nat
    PROVE  /\ Ordered(<<>>, lo, hi)
           /\ \A more \in Nat : Ordered(q, lo, hi) /\ hi <= more => Ordered(q, lo, more)
           /\ lo <= hi /\ Ordered(q, lo, hi) => Ordered(Append(q, hi), lo, hi)
           /\ q # <<>> /\ Ordered(q, lo, hi) =>
                 Ordered(Tail(q), Head(q), hi) /\ Head(q) \in Nat /\ lo <= Head(q) /\ Head(q) <= hi
<1>1. Ordered(<<>>, lo, hi)
  BY DEF Ordered
<1>2. Len(q) \in Nat /\ \A i \in 1..Len(q) : q[i] \in Nat
  BY LenProperties
<1>3. ASSUME NEW more \in Nat, Ordered(q, lo, hi), hi <= more PROVE Ordered(q, lo, more)
  BY <1>2, <1>3 DEF Ordered
<1>4. ASSUME lo <= hi, Ordered(q, lo, hi) PROVE Ordered(Append(q, hi), lo, hi)
  <2>1. /\ Len(Append(q, hi)) = Len(q) + 1
        /\ \A i \in 1..Len(q) : Append(q, hi)[i] = q[i]
        /\ Append(q, hi)[Len(q) + 1] = hi
    BY AppendProperties
  <2>2. \A i \in 1..(Len(q) + 1) : i \in 1..Len(q) \/ i = Len(q) + 1
    BY <1>2
  <2>3. \A i \in 1..(Len(q) + 1) : Append(q, hi)[i] \in lo..hi
    BY <1>2, <1>4, <2>1, <2>2 DEF Ordered
  <2>4. ASSUME NEW i \in 1..(Len(q) + 1), NEW j \in 1..(Len(q) + 1), i <= j
        PROVE  Append(q, hi)[i] <= Append(q, hi)[j]
    <3>1. CASE j = Len(q) + 1
      BY <2>1, <2>3, <3>1
    <3>2. CASE j \in 1..Len(q)
      <4>1. i \in 1..Len(q)
        BY <1>2, <2>4, <3>2
      <4> QED
        BY <1>4, <2>1, <2>4, <3>2, <4>1 DEF Ordered
    <3> QED
      BY <2>2, <3>1, <3>2
  <2> QED
    BY <2>1, <2>3, <2>4 DEF Ordered
<1>5. ASSUME q # <<>>, Ordered(q, lo, hi)
      PROVE  Ordered(Tail(q), Head(q), hi) /\ Head(q) \in Nat /\ lo <= Head(q) /\ Head(q) <= hi
  <2>1. /\ Len(q) \in Nat \ {0} /\ Len(Tail(q)) = Len(q) - 1
        /\ \A i \in 1..Len(Tail(q)) : Tail(q)[i] = q[i + 1]
    BY <1>5, HeadTailProperties, EmptySeq
  <2>2. 1 \in 1..Len(q) /\ Head(q) = q[1]
    BY <1>5, <2>1
  <2>3. \A i \in 1..Len(Tail(q)) : i + 1 \in 1..Len(q) /\ Tail(q)[i] = q[i + 1]
    BY <2>1
  <2>4. q[1] \in lo..hi
    BY <1>5, <2>2 DEF Ordered
  <2>5. \A i \in 1..Len(Tail(q)) : Tail(q)[i] \in q[1]..hi
    <3> SUFFICES ASSUME NEW i \in 1..Len(Tail(q)) PROVE Tail(q)[i] \in q[1]..hi
      OBVIOUS
    <3>1. q[i + 1] \in lo..hi /\ q[1] <= q[i + 1]
      BY <1>5, <2>2, <2>3 DEF Ordered
    <3> QED
      BY <2>3, <2>4, <3>1
  <2>6. ASSUME NEW i \in 1..Len(Tail(q)), NEW j \in 1..Len(Tail(q)), i <= j
        PROVE  Tail(q)[i] <= Tail(q)[j]
    BY <1>5, <2>3, <2>6 DEF Ordered
  <2> QED
    BY <2>2, <2>4, <2>5, <2>6 DEF Ordered
<1> QED
  BY <1>1, <1>3, <1>4, <1>5

LEMMA FlowTypes ==
    ASSUME TypeOK
    PROVE  /\ version \in Nat
           /\ \A r \in Replicas : msg[r] \in Nat /\ inbox[r] \in Seq(Nat)
           /\ \A c \in Conns : displayed[c] \in Nat /\ buffer[c] \in Seq(Nat) /\ at[c] \in Replicas
<1>1. 0..MaxVersion \subseteq Nat
  BY FeedAssumption
<1>2. ASSUME NEW q \in Seq(0..MaxVersion) PROVE q \in Seq(Nat)
  <2>1. Len(q) \in Nat /\ q \in [1..Len(q) -> 0..MaxVersion]
    BY LenProperties
  <2>2. q \in [1..Len(q) -> Nat]
    BY <1>1, <2>1
  <2> QED
    BY <2>1, <2>2
<1> QED
  BY <1>1, <1>2 DEF TypeOK

LEMMA InitFlow == Init => FlowInv
<1> SUFFICES ASSUME Init PROVE FlowInv
  OBVIOUS
<1>1. Ordered(<<>>, 0, 0)
  BY DEF Ordered
<1>2. /\ version = 0
      /\ \A r \in Replicas : msg[r] = 0 /\ inbox[r] = <<>>
      /\ \A c \in Conns : displayed[c] = 0 /\ buffer[c] = <<>> /\ at[c] \in Replicas
  BY DEF Init
<1> QED
  BY <1>1, <1>2 DEF FlowInv

\* Steps that move no board, but may lose some.
LEMMA LossKeepsFlow ==
    ASSUME TypeOK, FlowInv, UNCHANGED <<version, msg, displayed, at>>,
           \A r \in Replicas : inbox'[r] \in {inbox[r], <<>>},
           \A c \in Conns : /\ buffer'[c] \in {buffer[c], <<>>}
                            /\ handler'[c] = "none" => handler[c] = "none"
    PROVE  FlowInv'
<1>1. \A lo, hi \in Nat : Ordered(<<>>, lo, hi)
  BY DEF Ordered
<1>2. ASSUME NEW r \in Replicas
      PROVE  msg'[r] <= version' /\ Ordered(inbox'[r], msg'[r], version')
  BY <1>1, FlowTypes DEF FlowInv
<1>3. ASSUME NEW c \in Conns
      PROVE  /\ displayed'[c] <= msg'[at'[c]] /\ Ordered(buffer'[c], displayed'[c], msg'[at'[c]])
             /\ handler'[c] = "none" => displayed'[c] = 0 /\ buffer'[c] = <<>>
  BY <1>1, FlowTypes DEF FlowInv
<1> QED
  BY <1>2, <1>3 DEF FlowInv

\* A board is published or relayed.
LEMMA RelayKeepsFlow ==
    ASSUME TypeOK, FlowInv, NEW r \in Replicas, Publish \/ Receive(r)
    PROVE  FlowInv'
<1>1. CASE Publish
  <2>1. /\ version' \in Nat /\ version <= version'
        /\ UNCHANGED <<msg, displayed, at, buffer, handler>>
        /\ \A q \in Replicas : inbox'[q] \in {inbox[q], Append(inbox[q], version')}
    BY <1>1, FlowTypes DEF Publish, registryVars, pageVars
  <2>2. ASSUME NEW q \in Replicas
        PROVE  msg[q] <= version' /\ Ordered(inbox'[q], msg[q], version')
    <3>1. /\ msg[q] \in Nat /\ inbox[q] \in Seq(Nat) /\ version \in Nat
          /\ msg[q] <= version /\ Ordered(inbox[q], msg[q], version)
      BY FlowTypes DEF FlowInv
    <3>2. Ordered(inbox[q], msg[q], version')
      BY <2>1, <3>1, OrderedQueues
    <3>3. msg[q] <= version'
      BY <2>1, <3>1
    <3>4. Ordered(Append(inbox[q], version'), msg[q], version')
      BY <2>1, <3>1, <3>2, <3>3, OrderedQueues
    <3> QED
      BY <2>1, <3>2, <3>3, <3>4
  <2> QED
    BY <2>1, <2>2 DEF FlowInv
<1>2. CASE Receive(r)
  <2>1. /\ msg'[r] = Head(inbox[r]) /\ inbox'[r] = Tail(inbox[r]) /\ inbox[r] # <<>>
        /\ \A q \in Replicas \ {r} : msg'[q] = msg[q] /\ inbox'[q] = inbox[q]
        /\ UNCHANGED <<version, displayed, at, buffer, handler>>
    BY <1>2 DEF Receive, pageVars, TypeOK
  <2>2. /\ msg'[r] \in Nat /\ msg[r] <= msg'[r] /\ msg'[r] <= version
        /\ Ordered(inbox'[r], msg'[r], version)
    <3>1. /\ msg[r] \in Nat /\ inbox[r] \in Seq(Nat) /\ version \in Nat
          /\ Ordered(inbox[r], msg[r], version)
      BY FlowTypes DEF FlowInv
    <3> QED
      BY <2>1, <3>1, OrderedQueues
  <2>3. ASSUME NEW c \in Conns
        PROVE  displayed[c] <= msg'[at[c]] /\ Ordered(buffer[c], displayed[c], msg'[at[c]])
    <3>1. /\ displayed[c] \in Nat /\ buffer[c] \in Seq(Nat) /\ at[c] \in Replicas
          /\ msg[at[c]] \in Nat /\ msg'[at[c]] \in Nat /\ msg[at[c]] <= msg'[at[c]]
          /\ displayed[c] <= msg[at[c]] /\ Ordered(buffer[c], displayed[c], msg[at[c]])
      BY <2>1, <2>2, FlowTypes DEF FlowInv
    <3>2. displayed[c] <= msg'[at[c]]
      BY <3>1
    <3>3. Ordered(buffer[c], displayed[c], msg'[at[c]])
      BY <3>1, OrderedQueues
    <3> QED
      BY <3>2, <3>3
  <2>4. \A q \in Replicas : msg'[q] <= version' /\ Ordered(inbox'[q], msg'[q], version')
    BY <2>1, <2>2 DEF FlowInv
  <2> QED
    BY <2>1, <2>3, <2>4 DEF FlowInv
<1> QED
  BY <1>1, <1>2

\* A board is written to a connection or shown by a page.
LEMMA DeliveryKeepsFlow ==
    ASSUME TypeOK, Registered, FlowInv, NEW c \in Conns,
           Display(c) \/ \E r \in Replicas : Write(r, c)
    PROVE  FlowInv' /\ displayed'[c] >= displayed[c]
<1>0. /\ displayed[c] \in Nat /\ buffer[c] \in Seq(Nat) /\ at[c] \in Replicas
      /\ msg[at[c]] \in Nat
      /\ displayed[c] <= msg[at[c]] /\ Ordered(buffer[c], displayed[c], msg[at[c]])
  BY FlowTypes DEF FlowInv
<1>1. CASE Display(c)
  <2>1. /\ displayed'[c] = Head(buffer[c]) /\ buffer'[c] = Tail(buffer[c]) /\ buffer[c] # <<>>
        /\ \A e \in Conns \ {c} : displayed'[e] = displayed[e] /\ buffer'[e] = buffer[e]
        /\ UNCHANGED <<version, msg, inbox, at, handler>>
    BY <1>1 DEF Display, NotPages, pageVars, TypeOK
  <2>2. /\ displayed'[c] \in Nat /\ displayed[c] <= displayed'[c] /\ displayed'[c] <= msg[at[c]]
        /\ Ordered(buffer'[c], displayed'[c], msg[at[c]])
    BY <1>0, <2>1, OrderedQueues
  <2>3. handler[c] # "none"
    BY <2>1 DEF FlowInv
  <2> QED
    BY <1>0, <2>1, <2>2, <2>3 DEF FlowInv
<1>2. ASSUME NEW r \in Replicas, Write(r, c) PROVE FlowInv' /\ displayed'[c] >= displayed[c]
  <2>1. /\ buffer'[c] \in {buffer[c], Append(buffer[c], msg[r])}
        /\ \A e \in Conns \ {c} : buffer'[e] = buffer[e]
        /\ UNCHANGED <<version, msg, inbox, at, handler, displayed>>
    BY <1>2 DEF Write, pageVars, TypeOK
  <2>2. at[c] = r /\ handler[c] # "none"
    BY <1>2 DEF Write, Registered
  <2>3. Ordered(buffer'[c], displayed[c], msg[at[c]])
    <3>1. Ordered(Append(buffer[c], msg[at[c]]), displayed[c], msg[at[c]])
      BY <1>0, OrderedQueues
    <3> QED
      BY <1>0, <2>1, <2>2, <3>1
  <2> QED
    BY <1>0, <2>1, <2>2, <2>3 DEF FlowInv
<1> QED
  BY <1>1, <1>2

\* A new connection has brought no board yet.
LEMMA ConnectKeepsFlow ==
    ASSUME TypeOK, FlowInv, NEW b \in Browsers, Connect(b)
    PROVE  FlowInv'
<1> DEFINE c == <<b, made[b] + 1>>
<1>1. c \in Conns
  BY FeedAssumption DEF Connect, TypeOK, Conns
<1>2. /\ handler[c] = "none" /\ handler'[c] = "upgraded" /\ at'[c] \in Replicas
      /\ \A e \in Conns \ {c} : handler'[e] = handler[e] /\ at'[e] = at[e]
      /\ UNCHANGED <<version, msg, inbox, displayed, buffer>>
  BY <1>1 DEF Connect, HandlerGoes, NotPages, TypeOK
<1>3. displayed[c] = 0 /\ buffer[c] = <<>>
  BY <1>1, <1>2 DEF FlowInv
<1>4. displayed[c] <= msg[at'[c]] /\ Ordered(buffer[c], displayed[c], msg[at'[c]])
  BY <1>2, <1>3, FlowTypes DEF Ordered
<1> QED
  BY <1>1, <1>2, <1>4 DEF FlowInv

LEMMA StepFlow ==
    RegistryInv /\ FlowInv /\ [Next]_vars => FlowInv' /\ \A c \in Conns : displayed'[c] >= displayed[c]
<1> SUFFICES ASSUME TypeOK, Registered, FlowInv, [Next]_vars
             PROVE  FlowInv' /\ \A c \in Conns : displayed'[c] >= displayed[c]
  BY RegistryParts
<1>0. \A c \in Conns : displayed[c] \in Nat
  BY FlowTypes
<1> DEFINE Quiet ==
        /\ UNCHANGED <<version, msg, displayed, at>>
        /\ \A r \in Replicas : inbox'[r] \in {inbox[r], <<>>}
        /\ \A c \in Conns : /\ buffer'[c] \in {buffer[c], <<>>}
                            /\ handler'[c] = "none" => handler[c] = "none"
<1>1. ASSUME Quiet PROVE FlowInv' /\ \A c \in Conns : displayed'[c] >= displayed[c]
  BY <1>0, <1>1, LossKeepsFlow
<1>2. ASSUME NEW r \in Replicas, Unsubscribe(r) \/ Resubscribe(r) \/ Delete(r) \/ Crash(r)
      PROVE  Quiet
  BY <1>2 DEF Unsubscribe, Resubscribe, Delete, Crash, registryVars, pageVars, TypeOK
<1>3. ASSUME NEW r \in Replicas, NEW c \in Conns, WriteError(r, c) PROVE Quiet
  BY <1>3 DEF WriteError, pageVars
<1>4. ASSUME NEW c \in Conns, Register(c) \/ ReadFails(c) \/ Forget(c) \/ Close(c) PROVE Quiet
  BY <1>4 DEF Register, ReadFails, Forget, Close, HandlerGoes, NotHandlers, pageVars, TypeOK
<1>5. ASSUME NEW c \in Conns, SeesClose(c) \/ Disconnect(c) \/ Suspend(c) \/ Resume(c) PROVE Quiet
  BY <1>5 DEF SeesClose, Disconnect, Suspend, Resume, NotPages, TypeOK
<1>6. ASSUME UNCHANGED vars PROVE Quiet
  BY <1>6 DEF vars, registryVars, pageVars
<1>7. ASSUME NEW r \in Replicas, Publish \/ Receive(r)
      PROVE  FlowInv' /\ \A c \in Conns : displayed'[c] >= displayed[c]
  <2>1. displayed' = displayed
    BY <1>7 DEF Publish, Receive
  <2> QED
    BY <1>0, <1>7, <2>1, RelayKeepsFlow
<1>8. ASSUME NEW c \in Conns, Display(c) \/ \E r \in Replicas : Write(r, c)
      PROVE  FlowInv' /\ \A e \in Conns : displayed'[e] >= displayed[e]
  <2>1. \A e \in Conns \ {c} : displayed'[e] = displayed[e]
    BY <1>8 DEF Display, Write, TypeOK
  <2> QED
    BY <1>0, <1>8, <2>1, DeliveryKeepsFlow
<1>9. ASSUME NEW b \in Browsers, Connect(b)
      PROVE  FlowInv' /\ \A c \in Conns : displayed'[c] >= displayed[c]
  <2>1. displayed' = displayed
    BY <1>9 DEF Connect
  <2> QED
    BY <1>0, <1>9, <2>1, ConnectKeepsFlow
<1>10. PICK r \in Replicas : TRUE
  BY FeedAssumption
<1> QED
  BY <1>1, <1>2, <1>3, <1>4, <1>5, <1>6, <1>7, <1>8, <1>9, <1>10 DEF Next

\* Boards are in order from Redis to the page (ws.go:31-48).
THEOREM BoardsFlow == Spec => []FlowInv
BY RegistryIsConsistent, InitFlow, StepFlow, PTL DEF Spec

\* A page never shows an older board than before on the same connection
\* (ws.go:46-48, index.html:115-123).
THEOREM BoardsNeverGoBackOnAPage == Spec => BoardsInOrder
<1>1. RegistryInv /\ FlowInv /\ [Next]_vars => [\A c \in Conns : displayed'[c] >= displayed[c]]_vars
  BY StepFlow
<1> QED
  BY RegistryIsConsistent, BoardsFlow, <1>1, PTL DEF Spec, BoardsInOrder
=============================================================================
