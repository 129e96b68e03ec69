----------------------------- MODULE ChannelsView -----------------------------
(***************************************************************************)
(* The IRC plugin and the tree of channels of one client.  The client      *)
(* listens to chat:channels, asks every list for what it has, and hears    *)
(* what is announced, in order (see MessageBus and ListSync).              *)
(***************************************************************************)
EXTENDS IrcServers, ChannelsTree

VARIABLES
  request,  \* "no", "sent" once the mirror has asked for the lists, or "early"
            \* when that was before its connection was on the bus
  asked,    \* servers whose list has the request in its thread's queue
  answered, \* not in the code: those whose list has told the client all it has
  orphans   \* not in the code: what was listed when its server was removed

viewVars == <<request, asked, answered, orphans>>
vars == <<allVars, treeVars, viewVars>>

Init ==
  /\ IrcInit
  /\ TreeInit
  /\ request = "no"
  /\ asked = {}
  /\ answered = {}
  /\ orphans = {}

OnBus == {s \in DOMAIN servers : servers[s].phase # "made"}

Listed(S) == UNION {RowIds(servers[s]) : s \in S}

(* The SyncedList subscribes, and then sends "list": two packets of the    *)
(* client's.  It hears announcements once the first has been read and the  *)
(* registration of its connection, which waits in the main thread's queue, *)
(* has joined it with the lists.  If the second has been read by then too, *)
(* it has reached those lists at most that were joined before, or none.  A *)
(* client whose connection breaks begins again with an empty tree, which   *)
(* adds nothing to one that begins late.                                   *)
Follow ==
  /\ Running
  /\ ~following
  /\ following' = TRUE
  /\ \/ UNCHANGED <<request, asked>>
     \/ request' = "early" /\ asked' \in SUBSET OnBus
  /\ UNCHANGED <<configVars, servers, nextId, acts, feed, treeVars, answered, orphans>>

Request ==
  /\ Running
  /\ following
  /\ request = "no"
  /\ request' = "sent"
  /\ asked' = OnBus
  /\ UNCHANGED <<allVars, treeVars, answered, orphans>>

(* BaseSyncableList::toClient, "list". *)
Answer(s) ==
  /\ NoSave
  /\ asked' = asked \ {s}
  /\ answered' = answered \cup {s}
  /\ Say(<<Items(servers[s])>>)
  /\ UNCHANGED <<servers, nextId, acts, following, treeVars, request, orphans>>

(* The client takes the next announcement.  An assertion ends it. *)
Consume ==
  /\ feed # <<>>
  /\ treeFault = ""
  /\ Becomes(Consumed(Tree, Head(feed)))
  /\ feed' = Tail(feed)
  /\ UNCHANGED <<configVars, servers, nextId, acts, following, viewVars>>

(* Lists that tell all they have in this step, as ready() of a list does. *)
Readied == {s \in DOMAIN servers \cap DOMAIN servers' :
              following /\ servers[s].phase # "ready" /\ servers'[s].phase = "ready"}

(* The core's end is the end of the connection and of the client's tree. *)
CoreStep ==
  \/ /\ ServerStep \/ SaveIrc \/ WriteIrc
     /\ asked' = asked \cap DOMAIN servers'
     /\ answered' = (answered \cup Readied) \cap DOMAIN servers'
     /\ orphans' = orphans \cup Listed(DOMAIN servers \ DOMAIN servers')
     /\ UNCHANGED <<treeVars, request>>
  \/ /\ StartIrc
     /\ UNCHANGED <<treeVars, viewVars>>
  \/ /\ EndIrc
     /\ known' = Nothing /\ nodes' = Nothing /\ roots' = <<>>
     /\ parked' = Nothing /\ treeFault' = ""
     /\ request' = "no" /\ asked' = {} /\ answered' = {} /\ orphans' = {}

Next ==
  \/ CoreStep
  \/ Follow \/ Request \/ Consume
  \/ \E s \in asked : Answer(s)

Spec == Init /\ [][Next]_vars

-----------------------------------------------------------------------------
(* Type correctness of both sides. *)
TypeOK ==
  /\ IrcTypeOK
  /\ DOMAIN known \subseteq Ids /\ DOMAIN nodes \subseteq Ids /\ DOMAIN parked \subseteq Ids
  /\ \A n \in DOMAIN nodes :
       /\ nodes[n].parent \in Ids \cup {NoParent}
       /\ nodes[n].children \in Seq(Ids)
  /\ roots \in Seq(Ids)
  /\ treeFault \in {"", "root removed", "unknown channel", "deleted channel", "deleted parent"}
  /\ request \in {"no", "sent", "early"}
  /\ asked \subseteq DOMAIN servers /\ answered \subseteq DOMAIN servers
  /\ orphans \subseteq Ids

Shared(srv, id) ==
  \/ id \in srv.dangling
  \/ Cardinality({i \in DOMAIN srv.rows : srv.rows[i].id = id}) > 1

Heard ==
  /\ Running
  /\ treeFault = ""
  /\ feed = <<>>

(* A client that has heard everything shows every channel of every list    *)
(* that has told it what it has, below the parent that its row names if    *)
(* that is there (ChannelsModel::added), and nothing else but what was     *)
(* listed when its server was removed (IrcServer::removedBuffer).  When it *)
(* has asked, those are all lists that are ready, unless it asked before   *)
(* its connection was on the bus (TcpServerImpl::incomingConnection): its  *)
(* request is lost then, and it is told by lists that become ready later.  *)
(* Rows that share their id with another, or have done so, may be shown    *)
(* otherwise or not at all.                                                *)
TreeCatchesUp ==
  Heard =>
    /\ DOMAIN nodes \subseteq Listed(DOMAIN servers) \cup orphans
    /\ request = "sent" /\ asked = {} =>
         \A s \in DOMAIN servers : servers[s].phase = "ready" => s \in answered
    /\ \A s \in answered : \A i \in DOMAIN servers[s].rows :
         LET r == servers[s].rows[i]
         IN  ~Shared(servers[s], r.id) =>
               /\ r.id \in DOMAIN nodes
               /\ nodes[r.id].parent = IF r.parent \in DOMAIN nodes THEN r.parent ELSE NoParent

(* ChannelsModel::removed asserts that what is removed has a parent: "we   *)
(* can't remove the root element" (client/core/ChannelsModel.cpp:133).     *)
RootsStay == treeFault # "root removed"
===============================================================================
