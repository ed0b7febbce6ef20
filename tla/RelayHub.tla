------------------------------ MODULE RelayHub ------------------------------
(***************************************************************************)
(* The relay: internal/relay/hub.go (the map from account to connected     *)
(* client) and internal/relay/client.go (the life of one WebSocket         *)
(* connection), with the two handlers of internal/handler/relay.go that    *)
(* change what a connection may authenticate with.                         *)
(*                                                                         *)
(* One element of Conns is one *Client, that is one accepted socket: it is *)
(* used once and never again.  Its goroutine is Run, its second goroutine  *)
(* is writePump.  One element of Events is one call of Hub.OnEvent, one    *)
(* element of Callers one goroutine serving RegenerateSecret.              *)
(*                                                                         *)
(* An access to the hub under its mutex is one step.  What happens between *)
(* two such accesses, a database round trip included, is a step of its own.*)
(***************************************************************************)
EXTENDS Naturals, Sequences

CONSTANTS
  Accounts,    \* account ids a client may authenticate as
  Conns,       \* the *Client values NewClient ever returns
  Events,      \* the event frames handed to OnEvent
  Callers,     \* goroutines serving RegenerateSecret
  None,        \* no client in the hub, a nil pointer
  Pongs,       \* the PongFrames that answer ping frames of clients
  OutboxCap,   \* capacity of outCh, 64 in NewClient
  MaxIssued    \* bound on the row ids and secrets handed out

ASSUME RelayAssumption ==
  /\ None \notin Conns \cup Accounts \cup Events \cup Pongs
  /\ Events \cap Pongs = {}
  /\ OutboxCap \in Nat \ {0}
  /\ MaxIssued \in Nat

VARIABLES
  row,      \* relay_instances, by account_id: its id and secret, 0 if absent
  issued,   \* number of ids and secrets there have been; an id is used once
  clients,  \* Hub.clients
  pc,       \* where the goroutine running Run is
  acct,     \* Client.accountID, as read from the auth frame
  key,      \* the secret the connection proved knowledge of
  met,      \* history: the clients being served that were served together with
            \* another client of their account
  done,     \* Client.done is closed
  sock,     \* the connection under the client
  writer,   \* the writePump goroutine
  outbox,   \* Client.outCh
  holding,  \* the frame writePump has taken and is writing
  sent,     \* the frames written to the socket by writePump, in order
  pinged,   \* the ping frames read and answered so far
  fate,     \* progress and result of each OnEvent
  dest,     \* the account an event is addressed to
  target,   \* the client pointer OnEvent looked up
  caller    \* progress of each RegenerateSecret

dbVars     == <<row, issued>>
connVars   == <<pc, acct, key, met, sock, writer, holding, sent>>
eventVars  == <<fate, dest, target, pinged>>
vars == <<row, issued, clients, pc, acct, key, met, done, sock, writer, outbox,
          holding, sent, pinged, fate, dest, target, caller>>

Stages == {"idle", "auth", "checked", "registered", "pumping", "leaving", "closed"}
Fates  == {"new", "looked_up", "queued", "not_connected", "client_busy"}
Steps  == {"idle", "found", "updated", "removed"}
Frames == Events \cup Pongs
Rows   == [id : Nat, secret : Nat]
Calls  == [step : Steps, acct : Accounts \cup {None}, id : Nat, victim : Conns \cup {None}]
NoRow  == [id |-> 0, secret |-> 0]
NoCall == [step |-> "idle", acct |-> None, id |-> 0, victim |-> None]

\* Run has passed hub.Register for c and has not returned.
Serving(c) == pc[c] \in {"registered", "pumping", "leaving"}

Init ==
  /\ row = [a \in Accounts |-> NoRow]
  /\ issued = 0
  /\ clients = [a \in Accounts |-> None]
  /\ pc = [c \in Conns |-> "idle"]
  /\ acct = [c \in Conns |-> None]
  /\ key = [c \in Conns |-> 0]
  /\ met = {}
  /\ done = [c \in Conns |-> FALSE]
  /\ sock = [c \in Conns |-> "closed"]
  /\ writer = [c \in Conns |-> "off"]
  /\ outbox = [c \in Conns |-> <<>>]
  /\ holding = [c \in Conns |-> None]
  /\ sent = [c \in Conns |-> <<>>]
  /\ pinged = {}
  /\ fate = [e \in Events |-> "new"]
  /\ dest = [e \in Events |-> None]
  /\ target = [e \in Events |-> None]
  /\ caller = [h \in Callers |-> NoCall]

-----------------------------------------------------------------------------
(* Wrong forms of actions below, each a plausible slip in the code: a      *)
(* property that cannot tell them from the right form would show nothing.  *)

\* Disconnect without the delete: the client is closed but stays in the map.
DisconnectKeepsClient(h) ==
  LET a == caller[h].acct IN
  /\ caller[h].step = "updated"
  /\ caller' = [caller EXCEPT ![h] =
                  IF clients[a] = None
                    THEN NoCall
                    ELSE [@ EXCEPT !.step = "removed", !.victim = clients[a]]]
  /\ UNCHANGED <<dbVars, clients, connVars, done, outbox, eventVars>>

\* Register keeps the client it finds.
RegisterKeepsOld(c) ==
  LET old == clients[acct[c]] IN
  /\ pc[c] = "checked"
  /\ clients' = [clients EXCEPT ![acct[c]] = IF old = None THEN c ELSE old]
  /\ pc' = [pc EXCEPT ![c] = "registered"]
  /\ UNCHANGED <<dbVars, acct, key, met, done, sock, writer, outbox, holding, sent,
                 eventVars, caller>>

\* Run without the deferred Unregister.
DepartStaysRegistered(c) ==
  /\ pc[c] = "leaving"
  /\ pc' = [pc EXCEPT ![c] = "closed"]
  /\ sock' = [sock EXCEPT ![c] = "closed"]
  /\ UNCHANGED <<dbVars, clients, acct, key, met, done, writer, outbox, holding, sent,
                 eventVars, caller>>

\* Run without "go c.writePump()".
StartReadPumpOnly(c) ==
  /\ pc[c] = "registered"
  /\ pc' = [pc EXCEPT ![c] = "pumping"]
  /\ UNCHANGED <<dbVars, clients, acct, key, met, done, sock, writer, outbox, holding, sent,
                 eventVars, caller>>

\* readPump without a read deadline.
ReadWithoutDeadline(c) ==
  /\ pc[c] = "pumping"
  /\ sock[c] = "broken"
  /\ pc' = [pc EXCEPT ![c] = "leaving"]
  /\ UNCHANGED <<dbVars, clients, acct, key, met, done, sock, writer, outbox, holding, sent,
                 eventVars, caller>>

\* writePump goes on after a write error.
WriterContinues(c) ==
  /\ writer[c] = "writing" /\ sock[c] # "open"
  /\ writer' = [writer EXCEPT ![c] = "on"]
  /\ holding' = [holding EXCEPT ![c] = None]
  /\ UNCHANGED <<dbVars, clients, pc, acct, key, met, done, sock, outbox, sent,
                 eventVars, caller>>

\* OnEvent falls back on some client when the account has none.
OnEventLookupAny(e, a) ==
  /\ fate[e] = "new"
  /\ dest' = [dest EXCEPT ![e] = a]
  /\ \E b \in Accounts :
       /\ clients[a] = None \/ b = a
       /\ target' = [target EXCEPT ![e] = clients[b]]
       /\ fate' = [fate EXCEPT ![e] =
                     IF clients[b] = None THEN "not_connected" ELSE "looked_up"]
  /\ UNCHANGED <<dbVars, clients, connVars, done, outbox, pinged, caller>>

\* send to an unbounded queue.
SendUnbounded(e) ==
  /\ fate[e] = "looked_up"
  /\ outbox' = [outbox EXCEPT ![target[e]] = Append(@, e)]
  /\ fate' = [fate EXCEPT ![e] = "queued"]
  /\ UNCHANGED <<dbVars, clients, connVars, done, dest, target, pinged, caller>>

-----------------------------------------------------------------------------
(* Rows of relay_instances.                                                *)

\* CreateInstance: a row with a new id.  The caller may choose the account id,
\* which is UNIQUE, and the secret, so each of them can come back.
CreateInstance(a) ==
  /\ row[a] = NoRow
  /\ issued < MaxIssued
  /\ issued' = issued + 1
  /\ \E s \in 1..(issued + 1) :
       row' = [row EXCEPT ![a] = [id |-> issued + 1, secret |-> s]]
  /\ UNCHANGED <<clients, connVars, done, outbox, eventVars, caller>>

\* DeleteInstance: the row goes, the hub is not told.
DeleteInstance(a) ==
  /\ row[a] # NoRow
  /\ row' = [row EXCEPT ![a] = NoRow]
  /\ UNCHANGED <<issued, clients, connVars, done, outbox, eventVars, caller>>

-----------------------------------------------------------------------------
(* RegenerateSecret: read the row by id, write the new secret, then        *)
(* Hub.Disconnect, which takes the client out of the map under the lock    *)
(* and closes it after unlocking.                                          *)

RegenFind(h, a) ==
  /\ caller[h].step = "idle"
  /\ row[a] # NoRow
  /\ caller' = [caller EXCEPT ![h] =
                  [step |-> "found", acct |-> a, id |-> row[a].id, victim |-> None]]
  /\ UNCHANGED <<dbVars, clients, connVars, done, outbox, eventVars>>

\* UPDATE ... WHERE id: no row is hit, and no error raised, when the row has
\* been deleted since.
RegenUpdate(h) ==
  /\ caller[h].step = "found"
  /\ IF row[caller[h].acct].id = caller[h].id
       THEN /\ issued < MaxIssued
            /\ issued' = issued + 1
            /\ row' = [row EXCEPT ![caller[h].acct].secret = issued + 1]
       ELSE UNCHANGED dbVars
  /\ caller' = [caller EXCEPT ![h].step = "updated"]
  /\ UNCHANGED <<clients, connVars, done, outbox, eventVars>>

\* The update fails: the request ends with an error and no disconnect.
RegenAbort(h) ==
  /\ caller[h].step = "found"
  /\ caller' = [caller EXCEPT ![h] = NoCall]
  /\ UNCHANGED <<dbVars, clients, connVars, done, outbox, eventVars>>

\* Disconnect up to h.mu.Unlock.
DisconnectRemove(h) ==
  LET a == caller[h].acct IN
  /\ caller[h].step = "updated"
  /\ clients' = [clients EXCEPT ![a] = None]
  /\ caller' = [caller EXCEPT ![h] =
                  IF clients[a] = None
                    THEN NoCall
                    ELSE [@ EXCEPT !.step = "removed", !.victim = clients[a]]]
  /\ UNCHANGED <<dbVars, connVars, done, outbox, eventVars>>

\* Disconnect after the unlock: c.close().
DisconnectClose(h) ==
  /\ caller[h].step = "removed"
  /\ done' = [done EXCEPT ![caller[h].victim] = TRUE]
  /\ caller' = [caller EXCEPT ![h] = NoCall]
  /\ UNCHANGED <<dbVars, clients, connVars, outbox, eventVars>>

-----------------------------------------------------------------------------
(* One connection.                                                         *)

\* ServeWS: upgrade, NewClient, go Run.
ServeWS(c) ==
  /\ pc[c] = "idle"
  /\ pc' = [pc EXCEPT ![c] = "auth"]
  /\ sock' = [sock EXCEPT ![c] = "open"]
  /\ UNCHANGED <<dbVars, clients, acct, key, met, done, writer, outbox, holding, sent,
                 eventVars, caller>>

\* Run, the handshake refused: no frame within the deadline, not an auth
\* frame, no such account, an inactive one, or a wrong secret.  accountID is
\* still empty, so the deferred function only closes the socket.
AuthFail(c) ==
  /\ pc[c] = "auth"
  /\ pc' = [pc EXCEPT ![c] = "closed"]
  /\ sock' = [sock EXCEPT ![c] = "closed"]
  /\ UNCHANGED <<dbVars, clients, acct, key, met, done, writer, outbox, holding, sent,
                 eventVars, caller>>

\* Run, the handshake accepted: the secret in the row read here matches.
AuthCheck(c, a) ==
  /\ pc[c] = "auth"
  /\ row[a] # NoRow
  /\ pc' = [pc EXCEPT ![c] = "checked"]
  /\ acct' = [acct EXCEPT ![c] = a]
  /\ key' = [key EXCEPT ![c] = row[a].secret]
  /\ UNCHANGED <<dbVars, clients, met, done, sock, writer, outbox, holding, sent,
                 eventVars, caller>>

\* Hub.Register: close the client found under the account, then replace it.
Register(c) ==
  LET old == clients[acct[c]] IN
  /\ pc[c] = "checked"
  /\ done' = [d \in Conns |-> done[d] \/ d = old]
  /\ clients' = [clients EXCEPT ![acct[c]] = c]
  /\ pc' = [pc EXCEPT ![c] = "registered"]
  /\ met' = LET others == {d \in Conns : Serving(d) /\ acct[d] = acct[c]} IN
            IF others = {} THEN met ELSE met \cup others \cup {c}
  /\ UNCHANGED <<dbVars, acct, key, sock, writer, outbox, holding, sent, eventVars, caller>>

\* Run after Register: last_connected_at, auth_ok, go writePump, readPump.
StartPumps(c) ==
  /\ pc[c] = "registered"
  /\ pc' = [pc EXCEPT ![c] = "pumping"]
  /\ writer' = [writer EXCEPT ![c] = "on"]
  /\ UNCHANGED <<dbVars, clients, acct, key, met, done, sock, outbox, holding, sent,
                 eventVars, caller>>

\* readPump: a ping frame is answered through the outbox; send's result is
\* ignored.  Every other frame, an ACK included, changes nothing.
ReadPing(c, p) ==
  /\ pc[c] = "pumping" /\ sock[c] = "open"
  /\ p \notin pinged
  /\ pinged' = pinged \cup {p}
  /\ outbox' = IF Len(outbox[c]) < OutboxCap
                 THEN [outbox EXCEPT ![c] = Append(@, p)]
                 ELSE outbox
  /\ UNCHANGED <<dbVars, clients, connVars, done, fate, dest, target, caller>>

\* readPump ends: the socket fails, or no pong extends the read deadline
\* because writePump no longer sends pings.
ReadFail(c) ==
  /\ pc[c] = "pumping"
  /\ sock[c] = "broken" \/ writer[c] = "stopped"
  /\ pc' = [pc EXCEPT ![c] = "leaving"]
  /\ UNCHANGED <<dbVars, clients, acct, key, met, done, sock, writer, outbox, holding, sent,
                 eventVars, caller>>

\* The deferred function of Run: hub.Unregister(accountID), which deletes
\* whatever client is under the account, and conn.Close.
Depart(c) ==
  /\ pc[c] = "leaving"
  /\ clients' = [clients EXCEPT ![acct[c]] = None]
  /\ pc' = [pc EXCEPT ![c] = "closed"]
  /\ sock' = [sock EXCEPT ![c] = "closed"]
  /\ met' = met \ {c}
  /\ UNCHANGED <<dbVars, acct, key, done, writer, outbox, holding, sent, eventVars, caller>>

\* The peer or the network goes away without the server being told.
PeerDrop(c) ==
  /\ sock[c] = "open"
  /\ sock' = [sock EXCEPT ![c] = "broken"]
  /\ UNCHANGED <<dbVars, clients, pc, acct, key, met, done, writer, outbox, holding, sent,
                 eventVars, caller>>

\* writePump receives a frame from the outbox ...
TakeFrame(c) ==
  /\ writer[c] = "on" /\ outbox[c] # <<>>
  /\ writer' = [writer EXCEPT ![c] = "writing"]
  /\ holding' = [holding EXCEPT ![c] = Head(outbox[c])]
  /\ outbox' = [outbox EXCEPT ![c] = Tail(@)]
  /\ UNCHANGED <<dbVars, clients, pc, acct, key, met, done, sock, sent, eventVars, caller>>

\* ... and writes it.  A write to a broken socket may still be buffered and
\* report no error; one to a socket this side has closed never succeeds.
WriteFrame(c) ==
  /\ writer[c] = "writing" /\ sock[c] # "closed"
  /\ writer' = [writer EXCEPT ![c] = "on"]
  /\ sent' = [sent EXCEPT ![c] = Append(@, holding[c])]
  /\ holding' = [holding EXCEPT ![c] = None]
  /\ UNCHANGED <<dbVars, clients, pc, acct, key, met, done, sock, outbox, eventVars, caller>>

\* writePump returns: on done, which select may prefer to a waiting frame, on
\* a ping that fails, or on a frame that fails, which is then lost.
WriterStop(c) ==
  /\ \/ writer[c] = "on" /\ (done[c] \/ sock[c] # "open")
     \/ writer[c] = "writing" /\ sock[c] # "open"
  /\ writer' = [writer EXCEPT ![c] = "stopped"]
  /\ UNCHANGED <<dbVars, clients, pc, acct, key, met, done, sock, outbox, holding, sent,
                 eventVars, caller>>

-----------------------------------------------------------------------------
(* Hub.OnEvent: look the client up under the read lock, then offer the     *)
(* frame to its outbox without the lock.                                   *)

OnEventLookup(e, a) ==
  /\ fate[e] = "new"
  /\ dest' = [dest EXCEPT ![e] = a]
  /\ target' = [target EXCEPT ![e] = clients[a]]
  /\ fate' = [fate EXCEPT ![e] =
                IF clients[a] = None THEN "not_connected" ELSE "looked_up"]
  /\ UNCHANGED <<dbVars, clients, connVars, done, outbox, pinged, caller>>

OnEventSend(e) ==
  LET c == target[e] IN
  /\ fate[e] = "looked_up"
  /\ IF Len(outbox[c]) < OutboxCap
       THEN /\ outbox' = [outbox EXCEPT ![c] = Append(@, e)]
            /\ fate' = [fate EXCEPT ![e] = "queued"]
       ELSE /\ fate' = [fate EXCEPT ![e] = "client_busy"]
            /\ UNCHANGED outbox
  /\ UNCHANGED <<dbVars, clients, connVars, done, dest, target, pinged, caller>>

-----------------------------------------------------------------------------
ConnStep(c) ==
  \/ ServeWS(c) \/ AuthFail(c) \/ (\E a \in Accounts : AuthCheck(c, a))
  \/ Register(c) \/ StartPumps(c) \/ (\E p \in Pongs : ReadPing(c, p))
  \/ ReadFail(c) \/ Depart(c) \/ PeerDrop(c)
  \/ TakeFrame(c) \/ WriteFrame(c) \/ WriterStop(c)

CallerStep(h) ==
  \/ \E a \in Accounts : RegenFind(h, a)
  \/ RegenUpdate(h) \/ RegenAbort(h) \/ DisconnectRemove(h) \/ DisconnectClose(h)

EventStep(e) == (\E a \in Accounts : OnEventLookup(e, a)) \/ OnEventSend(e)

Next ==
  \/ \E a \in Accounts : CreateInstance(a) \/ DeleteInstance(a)
  \/ \E c \in Conns : ConnStep(c)
  \/ \E h \in Callers : CallerStep(h)
  \/ \E e \in Events : EventStep(e)

Spec == Init /\ [][Next]_vars

(***************************************************************************)
(* Fairness: the goroutines of a connection are scheduled, its deadlines   *)
(* fire (60 s for the handshake and for reads, pings every 50 s), and a    *)
(* select with done closed takes that branch eventually.  Peers, handlers  *)
(* and senders promise nothing.                                            *)
(***************************************************************************)
Fairness ==
  \A c \in Conns :
    /\ WF_vars(AuthFail(c)) /\ WF_vars(Register(c)) /\ WF_vars(StartPumps(c))
    /\ WF_vars(ReadFail(c)) /\ WF_vars(Depart(c))
    /\ WF_vars(TakeFrame(c)) /\ WF_vars(WriteFrame(c)) /\ WF_vars(WriterStop(c))

FairSpec == Spec /\ Fairness
-----------------------------------------------------------------------------
(* Properties.                                                             *)

\* Every variable has its type, an outbox never exceeds the channel, and what
\* writePump, OnEvent and Disconnect are about to use is there.
TypeOK ==
  /\ row \in [Accounts -> Rows]
  /\ issued \in Nat
  /\ clients \in [Accounts -> Conns \cup {None}]
  /\ pc \in [Conns -> Stages]
  /\ acct \in [Conns -> Accounts \cup {None}]
  /\ key \in [Conns -> Nat]
  /\ met \in SUBSET Conns
  /\ done \in [Conns -> BOOLEAN]
  /\ sock \in [Conns -> {"closed", "open", "broken"}]
  /\ writer \in [Conns -> {"off", "on", "writing", "stopped"}]
  /\ outbox \in [Conns -> Seq(Frames)]
  /\ \A c \in Conns : Len(outbox[c]) <= OutboxCap
  /\ holding \in [Conns -> Frames \cup {None}]
  /\ sent \in [Conns -> Seq(Frames)]
  /\ pinged \in SUBSET Pongs
  /\ fate \in [Events -> Fates]
  /\ dest \in [Events -> Accounts \cup {None}]
  /\ target \in [Events -> Conns \cup {None}]
  /\ caller \in [Callers -> Calls]
  /\ \A c \in Conns : writer[c] = "writing" => holding[c] # None
  /\ \A e \in Events : fate[e] = "looked_up" => target[e] # None
  /\ \A h \in Callers : caller[h].step # "idle" => caller[h].acct # None

\* A client in the hub authenticated for that very account and its Run has
\* not returned: the hub never keeps a client after the deferred Unregister.
HubHoldsServing ==
  \A a \in Accounts : clients[a] # None =>
    Serving(clients[a]) /\ acct[clients[a]] = a

\* Client.close is never reached twice for one client, so the unlocked test
\* and close(done) of client.go cannot panic: a client that Register or
\* Disconnect can still find is not closed, and one that Disconnect holds
\* after unlocking is out of the map, not closed, and held by no one else.
ClosedOnce ==
  /\ \A a \in Accounts : clients[a] # None => ~done[clients[a]]
  /\ \A h \in Callers : caller[h].step = "removed" =>
       LET c == caller[h].victim IN
       /\ ~done[c]
       /\ \A a \in Accounts : clients[a] # c
       /\ \A g \in Callers \ {h} : caller[g].victim # c

\* A connection that nobody has told to close, and that was never served
\* together with another one of its account, is the one the hub finds, however
\* many came and went before it: an account is lost from the hub under a live
\* connection only where connections overlap.
LoneClientIsOnline ==
  \A c \in Conns :
    /\ Serving(c) /\ ~done[c]
    /\ \A h \in Callers : caller[h].victim # c
    /\ c \notin met
    => clients[acct[c]] = c

\* The hub is a registry: whatever replaces, disconnects and leaves at once, a
\* connection is found under one account, once, and is hung up when it has
\* gone out of the map and not before.
Registered(c) == Serving(c) \/ (pc[c] = "closed" /\ acct[c] # None)
Hub == INSTANCE Registry WITH
  online <- clients,
  over <- {c \in Conns : Registered(c) /\ clients[acct[c]] # c},
  hung <- {c \in Conns : done[c]}
RegistrySpec == Hub!RegistrySpec

\* The frame is in the outbox of the connection, in the hands of its writer, or
\* written.
OnLine(c, f) ==
  \/ \E i \in DOMAIN outbox[c] : outbox[c][i] = f
  \/ holding[c] = f
  \/ \E i \in DOMAIN sent[c] : sent[c][i] = f

\* An event is on a connection only if OnEvent reported it queued, so a caller
\* told otherwise may store it without a second copy existing, and only on the
\* one looked up, which is of the account the event is addressed to, whatever
\* replaced that client between the lookup of OnEvent and its send.
EventsWhereTold ==
  \A c \in Conns, e \in Events :
    OnLine(c, e) => fate[e] = "queued" /\ target[e] = c /\ acct[c] = dest[e]

\* The client in the hub for a proved knowledge of a secret that is not, or
\* no longer, the one in the row.
Outdated(a) == clients[a] # None /\ key[clients[a]] # row[a].secret
\* A RegenerateSecret for a has written its secret and not yet disconnected.
Draining(a) == \E h \in Callers : caller[h].step = "updated" /\ caller[h].acct = a

\* RegenerateSecret writes first and disconnects second.  While a row lives,
\* an outdated client with no disconnect on its way can therefore only be
\* one that was past its secret check before the write and registers now.
OutdatedOnlyByLateRegister ==
  [][\A a \in Accounts :
       (row[a].id = row'[a].id /\ row[a] # NoRow /\ Outdated(a)' /\ ~Draining(a)')
       => \/ Outdated(a) /\ ~Draining(a)
          \/ pc[clients'[a]] = "checked"]_vars

\* What writePump does implements the link: per connection, an unbroken
\* prefix of the accepted frames, in order, each frame at most once.
Link == INSTANCE RelayLink WITH
  line <- [c \in Conns |->
             sent[c] \o (IF holding[c] = None THEN <<>> ELSE <<holding[c]>>) \o outbox[c]],
  handed <- [c \in Conns |-> Len(sent[c])],
  cut <- {c \in Conns : writer[c] = "stopped"}
LinkSpec == Link!LinkSpec

\* A connection told to close, or whose peer is gone, ends and is out of the
\* hub, though close() itself leaves the socket alone: writePump stops, no
\* ping is sent, the read deadline passes.
SignalledLeaves ==
  \A c \in Conns : (done[c] \/ sock[c] = "broken") ~> (pc[c] = "closed")

\* A frame the outbox of a connection has accepted is written to it, unless the
\* connection loses its writer first: writePump drops none of those it takes.
QueuedIsWritten ==
  \A c \in Conns, f \in Frames :
    (\E i \in DOMAIN outbox[c] : outbox[c][i] = f)
      ~> (writer[c] = "stopped" \/ \E i \in DOMAIN sent[c] : sent[c][i] = f)

\* hub.go:46: "IsOnline returns true if a client is currently connected for
\* the given accountID."  A client is connected here when its pumps run, its
\* socket is open, and nobody has closed or replaced it.
IsOnlineWhenConnected ==
  \A c \in Conns :
    /\ pc[c] = "pumping" /\ sock[c] = "open" /\ writer[c] # "stopped" /\ ~done[c]
    /\ \A h \in Callers : caller[h].victim # c
    => clients[acct[c]] # None
=============================================================================
