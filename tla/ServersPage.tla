------------------------------ MODULE ServersPage ------------------------------
(***************************************************************************)
(* The page of the settings on which a user edits the IRC servers:         *)
(* IRCServersPage, the IrcServersModel that it shows, and the list of      *)
(* servers that other users change at the same time.  A question to the    *)
(* user is an event loop of its own: packets are consumed while it waits,  *)
(* and only its answer comes from the user.                                *)
(***************************************************************************)
EXTENDS SequencesExt

CONSTANTS
  Ids,       \* servers, each of which is added once
  Names,     \* what a user may enter as the name of a server
  MaxActs,   \* bound on what the user does
  MaxEvents  \* bound on what else happens in the core

ASSUME BoundsAssumption == MaxActs \in Nat /\ MaxEvents \in Nat

(* No server has the id of a question or of an invalid index. *)
ASSUME IdsAssumption == "none" \notin Ids /\ "new" \notin Ids

VARIABLES
  servers,   \* the core's list: the servers, with name and connected
  used,      \* ids that have been in the list
  in,        \* announcements to this client
  mirror,      \* m_rows of the mirror: what it knows of these
  indices,   \* m_indices of the model, in the order of its rows
  current,   \* the current index of the view: a server or "none"
  form,      \* the index of the mapper, whose row the form shows and submits
  text,      \* what the form shows as the name
  typed,     \* not in the code: the user has typed that, since the page has
             \* last put something there
  boxOn,     \* the form is enabled
  buttons,   \* which of connect and disconnect are enabled
  dialog,    \* "none", "new", or the server that the question names
  sent,      \* commands on their way to the core
  acts, events  \* what the user and the core have done

formVars == <<text, typed>>
pageVars == <<current, form, formVars, boxOn, buttons>>
mirrorVars == <<mirror, indices>>
listVars == <<servers, used, events>>
settingsVars == <<listVars, in, mirrorVars, pageVars, dialog, sent, acts>>

NoName == ""
Row(i) == CHOOSE n \in DOMAIN indices : indices[n] = i
Shown == ToSet(indices)

Server == [name : Names, connected : BOOLEAN]
Announcement == [cmd : {"added", "item", "removed"}, id : Ids, row : Server]
Command == [cmd : {"add", "remove", "set", "connect", "disconnect"},
            id : Ids \cup {"none"}, name : Names \cup {NoName}]

(* The page opens on a core that has servers already; its mirror asks for  *)
(* them one by one.                                                        *)
PageInit ==
  /\ used \in SUBSET Ids
  /\ servers \in [used -> Server]
  /\ in = <<>>
  /\ mirror = [i \in {} |-> <<>>]
  /\ indices = <<>>
  /\ current = "none" /\ form = "none"
  /\ text = NoName /\ typed = FALSE
  /\ boxOn = FALSE
  /\ buttons = {"connect", "disconnect"}
  /\ dialog = "none"
  /\ sent = <<>>
  /\ acts = 0 /\ events = 0

-----------------------------------------------------------------------------
(* The core: what SyncableQObjectList tells its users.  Connection and name *)
(* of a server belong to a wrapped object: nobody is told that they change, *)
(* but every answer to a "get" of anybody says how they are.                *)
Tell(cmd, i, server) == in' = Append(in, [cmd |-> cmd, id |-> i, row |-> server])

AddServer(name) ==
  \E i \in Ids \ used :
    LET new == [name |-> name, connected |-> FALSE]
    IN  /\ servers' = [j \in DOMAIN servers \cup {i} |-> IF j = i THEN new ELSE servers[j]]
        /\ used' = used \cup {i}
        /\ Tell("added", i, new)

RemoveServer(i) ==
  /\ servers' = [j \in DOMAIN servers \ {i} |-> servers[j]]
  /\ Tell("removed", i, servers[i])
  /\ UNCHANGED used

SetName(i, name) ==
  /\ servers' = [servers EXCEPT ![i].name = name]
  /\ UNCHANGED <<used, in>>

(* toClient takes a command of this client; one that connects or           *)
(* disconnects is carried out by the network, with ConnectedChanges.  What *)
(* it does to a server that has gone is a matter of ListSync.              *)
ToClient ==
  /\ sent # <<>>
  /\ sent' = Tail(sent)
  /\ LET m == Head(sent)
     IN  \/ m.cmd = "add" /\ AddServer(m.name)
         \/ m.cmd = "remove" /\ m.id \in DOMAIN servers /\ RemoveServer(m.id)
         \/ m.cmd = "set" /\ m.id \in DOMAIN servers /\ SetName(m.id, m.name)
         \/ /\ m.cmd \in {"remove", "set"} => m.id \notin DOMAIN servers
            /\ m.cmd = "add" => Ids \subseteq used
            /\ UNCHANGED <<servers, used, in>>
  /\ UNCHANGED <<events, mirrorVars, pageVars, dialog, acts>>

ConnectedChanges ==
  \E i \in DOMAIN servers :
    /\ servers' = [servers EXCEPT ![i].connected = ~@]
    /\ UNCHANGED <<used, in>>

AnswerGet ==
  \E i \in DOMAIN servers :
    /\ Tell("item", i, servers[i])
    /\ UNCHANGED <<servers, used>>

(* What other users and the network do. *)
CoreStep ==
  /\ events < MaxEvents
  /\ events' = events + 1
  /\ \/ \E name \in Names : AddServer(name)
     \/ \E i \in DOMAIN servers : RemoveServer(i)
     \/ \E i \in DOMAIN servers : \E name \in Names \ {servers[i].name} : SetName(i, name)
     \/ ConnectedChanges
     \/ AnswerGet
  /\ UNCHANGED <<mirrorVars, pageVars, dialog, sent, acts>>

-----------------------------------------------------------------------------
(* isConnected() of an index, by what the mirror knows. *)
IsConnected(r, i) == i \in DOMAIN r /\ r[i].connected

UpdateConnectButtons(r, i) ==
  /\ buttons' = IF IsConnected(r, i) THEN {"disconnect"} ELSE {"connect"}
  /\ boxOn' = (i # "none")

(* The mapper puts what the model has into the form. *)
Populate(r, i) == text' = r[i].name /\ typed' = FALSE

(* currentChanged() of the view: the mapper follows to a row that is there *)
(* and ignores an invalid index.                                           *)
CurrentChanged(i) ==
  /\ current' = i
  /\ \/ i = "none" /\ UNCHANGED <<form, formVars>>
     \/ i # "none" /\ form' = i /\ Populate(mirror, i)
  /\ UpdateConnectButtons(mirror, i)

(* When its current row goes, the view goes on to the one after or before. *)
RowGoes(row) ==
  \/ /\ current = indices[row]
     /\ \E n \in {row - 1, row + 1} \cap DOMAIN indices : CurrentChanged(indices[n])
  \/ current = indices[row] /\ Len(indices) = 1 /\ CurrentChanged("none")
  \/ current # indices[row] /\ UNCHANGED pageVars

(* The slots of the model. *)
ModelAdded(i) == indices' = Append(indices, i)

(* Mutant: the view is told of the row below, if there is one. *)
ModelRemovedBelow(i) ==
  /\ RowGoes(IF Row(i) = Len(indices) THEN Row(i) ELSE Row(i) + 1)
  /\ indices' = RemoveAt(indices, Row(i))

ModelRemoved(i) ==
  /\ RowGoes(Row(i))
  /\ indices' = RemoveAt(indices, Row(i))

(* Mutant: nothing is told of the property. *)
PropertyUnnoticed(r) == UNCHANGED <<current, form, boxOn, buttons>>

(* propertyChanged() of the model, for "connected". *)
PropertyChanged(r) ==
  /\ UpdateConnectButtons(r, current)
  /\ UNCHANGED <<current, form>>

(* Mutant: a property is taken for that of another column. *)
ChangedElsewhere(r, i) == UNCHANGED formVars

(* dataChanged() of the model's changed(), for the column of the name: the *)
(* mapper takes it for the row of the form, whatever is being typed there. *)
Changed(r, i) ==
  IF form = i /\ r[i].name # mirror[i].name THEN Populate(r, i) ELSE UNCHANGED formVars

(* SyncedList::consume() and addOrUpdate(): a server is added once, if it  *)
(* was not there from the start.  A row that a change of status makes      *)
(* before it comes is not shown (SyncedList), and is left out here.        *)
Put(m) == [j \in DOMAIN mirror \cup {m.id} |-> IF j = m.id THEN m.row ELSE mirror[j]]

ConsumeAdded(m) ==
  /\ m.cmd # "removed" /\ m.id \notin DOMAIN mirror
  /\ mirror' = Put(m)
  /\ ModelAdded(m.id)
  /\ UNCHANGED pageVars

ConsumeItem(m) ==
  /\ m.cmd = "item" /\ m.id \in DOMAIN mirror
  /\ mirror' = Put(m)
  /\ IF mirror[m.id].connected # m.row.connected
     THEN PropertyChanged(mirror') ELSE UNCHANGED <<current, form, boxOn, buttons>>
  /\ Changed(mirror', m.id)
  /\ UNCHANGED indices

(* Mutant: the row goes from the model only. *)
ConsumeRemovedFromModel(m) ==
  /\ m.cmd = "removed" /\ m.id \in DOMAIN mirror
  /\ ModelRemoved(m.id)
  /\ UNCHANGED mirror

ConsumeRemoved(m) ==
  /\ m.cmd = "removed" /\ m.id \in DOMAIN mirror
  /\ ModelRemoved(m.id)
  /\ mirror' = [j \in DOMAIN mirror \ {m.id} |-> mirror[j]]

ConsumeUnknown(m) ==
  /\ m.cmd = "removed" /\ m.id \notin DOMAIN mirror
  /\ UNCHANGED <<mirrorVars, pageVars>>

PageConsume ==
  /\ in # <<>>
  /\ in' = Tail(in)
  /\ LET m == Head(in)
     IN  ConsumeAdded(m) \/ ConsumeItem(m) \/ ConsumeRemoved(m) \/ ConsumeUnknown(m)
  /\ UNCHANGED <<listVars, dialog, sent, acts>>

-----------------------------------------------------------------------------
(* What the user does.  The page does not get his clicks during a question. *)
Act ==
  /\ dialog = "none"
  /\ acts < MaxActs
  /\ acts' = acts + 1
  /\ UNCHANGED <<listVars, in, mirrorVars>>

EmitMsg(cmd, i) == sent' = Append(sent, [cmd |-> cmd, id |-> i, name |-> NoName])
EmitName(cmd, i, name) == sent' = Append(sent, [cmd |-> cmd, id |-> i, name |-> name])

Select ==
  /\ Act
  /\ \E i \in Shown \ {current} : CurrentChanged(i)
  /\ UNCHANGED <<dialog, sent>>

UserTypes ==
  /\ Act
  /\ boxOn
  /\ text' \in Names \ {text} /\ typed' = TRUE
  /\ UNCHANGED <<current, form, boxOn, buttons, dialog, sent>>

(* SyncedList::set(), which compares with what the mirror knows. *)
SetProperty(i, name) ==
  IF mirror[i].name # name THEN EmitName("set", i, name) ELSE UNCHANGED sent

(* submit() of the mapper, with the model's setData(). *)
ApplyClicked ==
  /\ Act
  /\ boxOn
  /\ IF form \in Shown THEN SetProperty(form, text) ELSE UNCHANGED sent
  /\ UNCHANGED <<pageVars, dialog>>

RemoveClicked ==
  /\ Act
  /\ current # "none"
  /\ dialog' = current
  /\ UNCHANGED <<pageVars, sent>>

NewClicked ==
  /\ Act
  /\ dialog' = "new"
  /\ UNCHANGED <<pageVars, sent>>

ConnectClicked ==
  /\ Act
  /\ "connect" \in buttons /\ current # "none"
  /\ EmitMsg("connect", current)
  /\ UNCHANGED <<pageVars, dialog>>

DisconnectClicked ==
  /\ Act
  /\ "disconnect" \in buttons /\ current # "none"
  /\ EmitMsg("disconnect", current)
  /\ UNCHANGED <<pageVars, dialog>>

(* The rest of removeClicked() and newClicked().  The row that goes is the *)
(* one that is current now.                                                *)
AnswerYes ==
  /\ dialog # "none"
  /\ dialog' = "none"
  /\ \/ dialog = "new" /\ \E name \in Names : EmitName("add", "none", name)
     \/ dialog # "new" /\ current # "none" /\ EmitMsg("remove", current)
     \/ dialog # "new" /\ current = "none" /\ UNCHANGED sent
  /\ UNCHANGED <<listVars, in, mirrorVars, pageVars, acts>>

AnswerNo ==
  /\ dialog # "none"
  /\ dialog' = "none"
  /\ UNCHANGED <<listVars, in, mirrorVars, pageVars, sent, acts>>

PageNext ==
  \/ CoreStep \/ ToClient \/ PageConsume
  \/ Select \/ UserTypes \/ ApplyClicked \/ RemoveClicked \/ NewClicked \/ ConnectClicked \/ DisconnectClicked
  \/ AnswerYes \/ AnswerNo

PageSpec == PageInit /\ [][PageNext]_settingsVars

-----------------------------------------------------------------------------
PageTypeOK ==
  /\ used \subseteq Ids /\ DOMAIN servers \subseteq used
  /\ servers \in [DOMAIN servers -> Server]
  /\ in \in Seq(Announcement)
  /\ mirror \in [DOMAIN mirror -> Server]
  /\ indices \in Seq(Ids) /\ Shown = DOMAIN mirror /\ IsInjective(indices)
  /\ current \in Shown \cup {"none"}
  /\ form \in Ids \cup {"none"}
  /\ text \in Names \cup {NoName} /\ typed \in BOOLEAN /\ boxOn \in BOOLEAN
  /\ buttons \in SUBSET {"connect", "disconnect"}
  /\ dialog \in Ids \cup {"none", "new"}
  /\ sent \in Seq(Command)
  /\ acts \in 0..MaxActs /\ events \in 0..MaxEvents

(* Only a form that shows a server can be edited, and a command that names  *)
(* a server, or gives it a name, has one.                                   *)
FormHasName == form # "none" => text \in Names
CommandsAreMeant ==
  \A k \in DOMAIN sent :
    /\ sent[k].cmd \in {"add", "set"} => sent[k].name \in Names
    /\ sent[k].cmd \in {"set", "remove"} => sent[k].id \in Ids

(* However rows come, change and go, the form that can be edited and       *)
(* submitted is that of the current server, and form and buttons show what *)
(* the mirror knows of it, but for what the user is typing                 *)
(* (IRCServersPage::updateConnectButtons, the mapper).                     *)
PageShowsCurrent ==
  /\ boxOn <=> current # "none"
  /\ current # "none" =>
       /\ form = current
       /\ ~typed => text = mirror[current].name
       /\ buttons = IF IsConnected(mirror, current) THEN {"disconnect"} ELSE {"connect"}

(* What makes the next property inductive: nothing is told of a server      *)
(* after its removal, so that the one a question names, once its row has    *)
(* gone, does not come back while the user thinks.                          *)
Gone(i) == i \in used \ DOMAIN servers
RemovalsAreLast ==
  \A k \in DOMAIN in : in[k].cmd = "removed" =>
    Gone(in[k].id) /\ \A l \in DOMAIN in : l > k => in[l].id # in[k].id
QuestionHolds ==
  dialog \in Ids /\ dialog # current =>
    /\ dialog \notin Shown /\ Gone(dialog)
    /\ \A k \in DOMAIN in : in[k].id # dialog

PageInv == FormHasName /\ CommandsAreMeant /\ PageShowsCurrent
QuestionInv == RemovalsAreLast /\ QuestionHolds

Removes == Len(sent') > Len(sent) /\ Last(sent').cmd = "remove"

(* A server that is removed is the one that the question has named, unless *)
(* that one had gone from the list when it was answered                    *)
(* (IRCServersPage::removeClicked reads the current index twice).          *)
OthersGoOnlyAfterIt ==
  [][Removes => Last(sent').id = dialog \/ dialog \notin Shown]_settingsVars

Sets == Len(sent') > Len(sent) /\ Last(sent').cmd = "set"

(* What a user applies is what he has typed for that very server, and the  *)
(* name that another user may have given it meanwhile is not undone by a   *)
(* form that has only shown the old one (applyClicked, SyncedList::set,    *)
(* SyncedListModel::changed).                                              *)
OnlyTypedIsApplied ==
  [][Sets => typed /\ Last(sent').id = current /\ Last(sent').name = text]_settingsVars
===============================================================================
