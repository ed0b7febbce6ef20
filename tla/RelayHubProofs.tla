--------------------------- MODULE RelayHubProofs ---------------------------
(***************************************************************************)
(* Proofs about RelayHub, for any accounts, connections, events, callers,  *)
(* outbox capacity and bound on ids.                                       *)
(***************************************************************************)
EXTENDS RelayHub, TLAPS

\* A call that moves on, or takes a client out of the hub, is a call for the
\* same account.
LEMMA CallUpdate ==
  ASSUME NEW r \in Calls, NEW s \in Steps, NEW v \in Conns \cup {None}
  PROVE  /\ [r EXCEPT !.step = s] \in Calls
         /\ [r EXCEPT !.step = s].acct = r.acct
         /\ [r EXCEPT !.step = s, !.victim = v] \in Calls
         /\ [r EXCEPT !.step = s, !.victim = v].acct = r.acct
BY DEF Calls

\* TypeOK holds initially and no step of the relay breaks it.
LEMMA TypeInit == Init => TypeOK
BY RelayAssumption
DEF TypeOK, Frames, Init, Stages, Fates, Steps, NoRow, NoCall, Rows, Calls

LEMMA TypeStep == TypeOK /\ [Next]_vars => TypeOK'
<1> USE RelayAssumption DEF TypeOK, Frames
<1> SUFFICES ASSUME TypeOK, [Next]_vars PROVE TypeOK'
  OBVIOUS
<1>1. ASSUME NEW a \in Accounts, CreateInstance(a) PROVE TypeOK'
  BY <1>1 DEF CreateInstance, Rows, connVars, eventVars
<1>2. ASSUME NEW a \in Accounts, DeleteInstance(a) PROVE TypeOK'
  BY <1>2 DEF DeleteInstance, connVars, eventVars, NoRow, Rows
<1>3. ASSUME NEW c \in Conns, ServeWS(c) PROVE TypeOK'
  BY <1>3 DEF ServeWS, dbVars, eventVars, Stages
<1>4. ASSUME NEW c \in Conns, AuthFail(c) PROVE TypeOK'
  BY <1>4 DEF AuthFail, dbVars, eventVars, Stages
<1>5. ASSUME NEW c \in Conns, NEW a \in Accounts, AuthCheck(c, a) PROVE TypeOK'
  <2>1. row[a].secret \in Nat
    BY DEF Rows
  <2>2. QED
    BY <1>5, <2>1 DEF AuthCheck, dbVars, eventVars, Stages
<1>6. ASSUME NEW c \in Conns, Register(c) PROVE TypeOK'
  BY <1>6 DEF Register, dbVars, eventVars, Stages
<1>7. ASSUME NEW c \in Conns, StartPumps(c) PROVE TypeOK'
  BY <1>7 DEF StartPumps, dbVars, eventVars, Stages
<1>8. ASSUME NEW c \in Conns, NEW p \in Pongs, ReadPing(c, p) PROVE TypeOK'
  BY <1>8 DEF ReadPing, dbVars, connVars
<1>9. ASSUME NEW c \in Conns, ReadFail(c) PROVE TypeOK'
  BY <1>9 DEF ReadFail, dbVars, eventVars, Stages
<1>10. ASSUME NEW c \in Conns, Depart(c) PROVE TypeOK'
  BY <1>10 DEF Depart, dbVars, eventVars, Stages
<1>11. ASSUME NEW c \in Conns, PeerDrop(c) PROVE TypeOK'
  BY <1>11 DEF PeerDrop, dbVars, eventVars
<1>12. ASSUME NEW c \in Conns, TakeFrame(c) PROVE TypeOK'
  BY <1>12 DEF TakeFrame, dbVars, eventVars
<1>13. ASSUME NEW c \in Conns, WriteFrame(c) PROVE TypeOK'
  BY <1>13 DEF WriteFrame, dbVars, eventVars
<1>14. ASSUME NEW c \in Conns, WriterStop(c) PROVE TypeOK'
  BY <1>14 DEF WriterStop, dbVars, eventVars
<1>15. ASSUME NEW h \in Callers, NEW a \in Accounts, RegenFind(h, a) PROVE TypeOK'
  BY <1>15 DEF RegenFind, dbVars, connVars, eventVars, Steps, Calls, Rows
<1>16. ASSUME NEW h \in Callers, RegenUpdate(h) PROVE TypeOK'
  <2> DEFINE a == caller[h].acct
  <2>1. a \in Accounts /\ caller[h].step = "found"
    BY <1>16 DEF RegenUpdate, Calls
  <2>2. row' \in [Accounts -> Rows] /\ issued' \in Nat
    <3> DEFINE new == [row[a] EXCEPT !.secret = issued + 1]
    <3>1. new \in Rows
      <4>1. row[a] \in Rows /\ issued + 1 \in Nat
        BY <2>1
      <4> HIDE DEF a, TypeOK
      <4>2. QED
        BY ONLY <4>1 DEF Rows
    <3>2. \/ UNCHANGED dbVars
          \/ issued' = issued + 1 /\ row' = [row EXCEPT ![a] = new]
      BY <1>16 DEF RegenUpdate
    <3>3. row \in [Accounts -> Rows] /\ issued \in Nat
      OBVIOUS
    <3>4. CASE UNCHANGED dbVars
      BY <3>3, <3>4 DEF dbVars
    <3>5. CASE issued' = issued + 1 /\ row' = [row EXCEPT ![a] = new]
      <4> HIDE DEF new, a, TypeOK
      <4>1. issued' \in Nat
        BY <3>3, <3>5
      <4>2. row' \in [Accounts -> Rows]
        BY ONLY <2>1, <3>1, <3>3, <3>5
      <4>3. QED
        BY <4>1, <4>2
    <3>6. QED
      BY <3>2, <3>4, <3>5
  <2>3. caller' = [caller EXCEPT ![h] = [caller[h] EXCEPT !.step = "updated"]]
    BY <1>16 DEF RegenUpdate
  <2>4. /\ [caller[h] EXCEPT !.step = "updated"] \in Calls
        /\ [caller[h] EXCEPT !.step = "updated"].acct = a
    <3>1. "updated" \in Steps /\ caller[h] \in Calls
      BY DEF Steps
    <3>2. QED
      BY <3>1, CallUpdate
  <2>5. QED
    BY <1>16, <2>1, <2>2, <2>3, <2>4 DEF RegenUpdate, connVars, eventVars
<1>17. ASSUME NEW h \in Callers, RegenAbort(h) PROVE TypeOK'
  BY <1>17 DEF RegenAbort, dbVars, connVars, eventVars, Steps, NoCall, Calls
<1>18. ASSUME NEW h \in Callers, DisconnectRemove(h) PROVE TypeOK'
  <2> DEFINE a == caller[h].acct
             held == [caller[h] EXCEPT !.step = "removed", !.victim = clients[a]]
  <2>1. a \in Accounts /\ caller[h].step = "updated"
    BY <1>18 DEF DisconnectRemove, Calls
  <2>2. held \in Calls /\ held.acct = a
    <3>1. PICK b \in Calls : b = caller[h]
      OBVIOUS
    <3>2. PICK c \in Conns \cup {None} : c = clients[a]
      BY <2>1
    <3>3. held = [b EXCEPT !.step = "removed", !.victim = c] /\ b.acct = a
      BY <3>1, <3>2
    <3>4. QED
      BY <3>3 DEF Steps, Calls
  <2>3. NoCall \in Calls /\ NoCall.step = "idle"
    BY DEF NoCall, Steps, Calls
  <2>4. caller' = [caller EXCEPT ![h] = IF clients[a] = None THEN NoCall ELSE held]
    BY <1>18 DEF DisconnectRemove
  <2> HIDE DEF held
  <2>5. QED
    BY <1>18, <2>1, <2>2, <2>3, <2>4
    DEF DisconnectRemove, dbVars, connVars, eventVars
<1>19. ASSUME NEW h \in Callers, DisconnectClose(h) PROVE TypeOK'
  BY <1>19 DEF DisconnectClose, dbVars, connVars, eventVars, Steps, NoCall, Calls
<1>20. ASSUME NEW e \in Events, NEW a \in Accounts, OnEventLookup(e, a) PROVE TypeOK'
  BY <1>20 DEF OnEventLookup, dbVars, connVars, Fates
<1>21. ASSUME NEW e \in Events, OnEventSend(e) PROVE TypeOK'
  <2> DEFINE c == target[e]
  <2>1. c \in Conns
    BY <1>21 DEF OnEventSend
  <2>2. CASE Len(outbox[c]) < OutboxCap
    <3>1. outbox' = [outbox EXCEPT ![c] = Append(outbox[c], e)]
      BY <1>21, <2>2 DEF OnEventSend
    <3>2. /\ Append(outbox[c], e) \in Seq(Frames)
          /\ Len(Append(outbox[c], e)) <= OutboxCap
      BY <2>1, <2>2
    <3>3. fate' = [fate EXCEPT ![e] = "queued"]
      BY <1>21, <2>2 DEF OnEventSend
    <3>4. QED
      BY <1>21, <2>1, <3>1, <3>2, <3>3 DEF OnEventSend, dbVars, connVars, Fates
  <2>3. CASE ~(Len(outbox[c]) < OutboxCap)
    BY <1>21, <2>3 DEF OnEventSend, dbVars, connVars, Fates
  <2>4. QED
    BY <2>2, <2>3
<1>22. CASE UNCHANGED vars
  BY <1>22 DEF vars
<1>23. QED
  BY <1>1, <1>2, <1>3, <1>4, <1>5, <1>6, <1>7, <1>8, <1>9, <1>10, <1>11, <1>12,
     <1>13, <1>14, <1>15, <1>16, <1>17, <1>18, <1>19, <1>20, <1>21, <1>22
     DEF Next, ConnStep, CallerStep, EventStep

\* RelayHub: every variable keeps its type and no outbox outgrows outCh.
THEOREM TypeCorrect == Spec => []TypeOK
<1>1. QED
  BY TypeInit, TypeStep, PTL DEF Spec
-----------------------------------------------------------------------------
(* The safety of the hub's map.  None of the three invariants is inductive: *)
(* that a client found under one account is not under another needs the     *)
(* account each Run has read, and that a client is closed once needs that   *)
(* none is closed, or held by a Disconnect, before it registers.            *)

\* How far Run is decides whether the account is known; a client is closed
\* only after it registered.
Handshake ==
  \A c \in Conns :
    /\ pc[c] \in {"idle", "auth"} => acct[c] = None
    /\ pc[c] = "checked" \/ Serving(c) => acct[c] \in Accounts
    /\ pc[c] \in {"idle", "auth", "checked"} => ~done[c]

\* A Disconnect holds a client exactly between its unlock and its close, and
\* that client had registered.
HeldVictim ==
  \A h \in Callers :
    /\ caller[h].step # "removed" => caller[h].victim = None
    /\ caller[h].step = "removed" =>
         /\ caller[h].victim \in Conns
         /\ pc[caller[h].victim] \notin {"idle", "auth", "checked"}

IInv ==
  /\ TypeOK
  /\ Handshake
  /\ HeldVictim
  /\ HubHoldsServing
  /\ ClosedOnce

LEMMA SafeInit == Init => IInv
<1>1. Init => TypeOK
  BY TypeInit
<1>2. ASSUME Init PROVE Handshake /\ HeldVictim /\ HubHoldsServing /\ ClosedOnce
  BY <1>2 DEF Init, Handshake, HeldVictim, HubHoldsServing, ClosedOnce, Serving, NoCall
<1>3. QED
  BY <1>1, <1>2 DEF IInv

\* A step that touches neither the map, nor a Run, nor a Disconnect.
LEMMA QuietStep ==
  ASSUME IInv, TypeOK', UNCHANGED <<clients, pc, acct, done, caller>>
  PROVE  IInv'
<1>1. Handshake' /\ HeldVictim'
  BY DEF IInv, Handshake, HeldVictim, Serving
<1>2. HubHoldsServing' /\ ClosedOnce'
  BY DEF IInv, HubHoldsServing, ClosedOnce, Serving
<1>3. QED
  BY <1>1, <1>2 DEF IInv

\* A Run that moves on without touching the map.
LEMMA RunStep ==
  ASSUME IInv, TypeOK', NEW c \in Conns,
         \/ ServeWS(c) \/ AuthFail(c) \/ StartPumps(c) \/ ReadFail(c)
         \/ \E a \in Accounts : AuthCheck(c, a)
  PROVE  IInv'
<1> USE RelayAssumption DEF IInv, TypeOK
<1>1. /\ UNCHANGED <<clients, done, caller>>
      /\ \A d \in Conns \ {c} : pc'[d] = pc[d] /\ acct'[d] = acct[d]
      /\ \/ pc[c] = "idle" /\ pc'[c] = "auth" /\ acct'[c] = acct[c]
         \/ pc[c] = "auth" /\ pc'[c] = "closed" /\ acct'[c] = acct[c]
         \/ pc[c] = "auth" /\ pc'[c] = "checked" /\ acct'[c] \in Accounts
         \/ pc[c] = "registered" /\ pc'[c] = "pumping" /\ acct'[c] = acct[c]
         \/ pc[c] = "pumping" /\ pc'[c] = "leaving" /\ acct'[c] = acct[c]
  BY DEF ServeWS, AuthFail, StartPumps, ReadFail, AuthCheck
<1>2. Handshake'
  BY <1>1, SMTT(60) DEF Handshake, Serving
<1>3. HeldVictim'
  BY <1>1, ZenonT(60) DEF HeldVictim
<1>4. HubHoldsServing'
  BY <1>1, SMTT(60) DEF HubHoldsServing, Serving
<1>5. ClosedOnce'
  BY <1>1 DEF ClosedOnce
<1>6. QED
  BY <1>2, <1>3, <1>4, <1>5

\* Register closes a client that is in the map, so one no Disconnect holds.
LEMMA RegisterStep ==
  ASSUME IInv, TypeOK', NEW c \in Conns, Register(c)
  PROVE  IInv'
<1> USE RelayAssumption DEF IInv, TypeOK
<1> DEFINE a == acct[c]
           old == clients[a]
<1>1. /\ a \in Accounts /\ pc[c] = "checked" /\ ~done[c]
      /\ UNCHANGED <<acct, caller>>
      /\ pc' = [pc EXCEPT ![c] = "registered"]
      /\ clients' = [clients EXCEPT ![a] = c]
      /\ done' = [d \in Conns |-> done[d] \/ d = old]
  BY DEF Register, Handshake
<1>2. \A b \in Accounts : clients[b] # c
  <2>1. ~Serving(c) /\ c # None
    BY <1>1 DEF Serving
  <2>2. QED
    BY <2>1 DEF HubHoldsServing
<1>3. \A b \in Accounts \ {a} : clients[b] = old => old = None
  BY <1>1 DEF HubHoldsServing
<1> HIDE DEF a, old
<1>4. Handshake'
  <2>1. old # c /\ (old # None => Serving(old))
    BY <1>1, <1>2 DEF HubHoldsServing, old
  <2>2. QED
    BY <1>1, <2>1, SMTT(60) DEF Handshake, Serving
<1>5. HeldVictim'
  BY <1>1 DEF HeldVictim
<1>6. HubHoldsServing'
  <2>1. SUFFICES ASSUME NEW b \in Accounts, clients'[b] # None
                 PROVE  (Serving(clients[b]) /\ acct[clients[b]] = b)'
    BY DEF HubHoldsServing
  <2>2. CASE b = a
    BY <1>1, <2>2 DEF Serving, a
  <2>3. CASE b # a
    <3>1. clients'[b] = clients[b] /\ clients[b] \in Conns
      BY <1>1, <2>1, <2>3
    <3>2. QED
      BY <1>1, <2>1, <3>1, SMTT(60) DEF HubHoldsServing, Serving
  <2>4. QED
    BY <2>2, <2>3
<1>7. ClosedOnce'
  <2>1. \A b \in Accounts : clients'[b] # None => ~done'[clients'[b]]
    <3>1. SUFFICES ASSUME NEW b \in Accounts, clients'[b] # None
                   PROVE  ~done'[clients'[b]]
      OBVIOUS
    <3>2. CASE b = a
      BY <1>1, <1>2, <3>2 DEF old
    <3>3. CASE b # a
      <4>1. clients'[b] = clients[b] /\ clients[b] \in Conns /\ clients[b] # old
        BY <1>1, <1>3, <3>1, <3>3
      <4>2. QED
        BY <1>1, <4>1, SMTT(60) DEF ClosedOnce
    <3>4. QED
      BY <3>2, <3>3
  <2>2. ASSUME NEW h \in Callers, caller'[h].step = "removed"
        PROVE  /\ ~done'[caller'[h].victim]
               /\ \A b \in Accounts : clients'[b] # caller'[h].victim
               /\ \A g \in Callers \ {h} : caller'[g].victim # caller'[h].victim
    <3> DEFINE v == caller[h].victim
    <3>1. /\ caller' = caller /\ v \in Conns /\ ~done[v] /\ v # c
          /\ \A b \in Accounts : clients[b] # v
          /\ \A g \in Callers \ {h} : caller[g].victim # v
      BY <1>1, <2>2 DEF ClosedOnce, HeldVictim
    <3>2. ~done'[v]
      BY <1>1, <3>1 DEF old
    <3>3. \A b \in Accounts : clients'[b] # v
      BY <1>1, <3>1
    <3>4. QED
      BY <3>1, <3>2, <3>3
  <2>3. QED
    BY <2>1, <2>2 DEF ClosedOnce
<1>8. QED
  BY <1>4, <1>5, <1>6, <1>7
\* The deferred function of Run only takes a client out of the map.
LEMMA DepartStep ==
  ASSUME IInv, TypeOK', NEW c \in Conns, Depart(c)
  PROVE  IInv'
<1> USE RelayAssumption DEF IInv, TypeOK
<1> DEFINE a == acct[c]
<1>1. /\ a \in Accounts /\ pc[c] = "leaving"
      /\ UNCHANGED <<acct, done, caller>>
      /\ pc' = [pc EXCEPT ![c] = "closed"]
      /\ clients' = [clients EXCEPT ![a] = None]
  BY DEF Depart, Handshake, Serving
<1>2. Handshake' /\ HeldVictim'
  BY <1>1 DEF Handshake, HeldVictim, Serving
<1>3. HubHoldsServing'
  BY <1>1 DEF HubHoldsServing, Serving
<1>4. ClosedOnce'
  BY <1>1, SMTT(60) DEF ClosedOnce, HeldVictim
<1>5. QED
  BY <1>2, <1>3, <1>4

\* RegenerateSecret before it disconnects.
LEMMA RegenStep ==
  ASSUME IInv, TypeOK', NEW h \in Callers,
         RegenUpdate(h) \/ RegenAbort(h) \/ \E a \in Accounts : RegenFind(h, a)
  PROVE  IInv'
<1> USE RelayAssumption DEF IInv, TypeOK
<1>1. /\ UNCHANGED <<clients, pc, acct, done>>
      /\ \A g \in Callers \ {h} : caller'[g] = caller[g]
      /\ caller[h].victim = None /\ caller'[h].victim = None
      /\ caller'[h].step # "removed"
  <2>1. CASE RegenUpdate(h)
    BY <2>1 DEF RegenUpdate, connVars, HeldVictim, Calls
  <2>2. CASE \E a \in Accounts : RegenFind(h, a)
    BY <2>2 DEF RegenFind, connVars, HeldVictim
  <2>3. CASE RegenAbort(h)
    BY <2>3 DEF RegenAbort, connVars, HeldVictim, NoCall
  <2>4. QED
    BY <2>1, <2>2, <2>3
<1>2. \A g \in Callers : caller'[g].victim = caller[g].victim
  BY <1>1
<1>3. Handshake' /\ HeldVictim'
  BY <1>1 DEF Handshake, HeldVictim, Serving
<1>4. HubHoldsServing'
  BY <1>1 DEF HubHoldsServing, Serving
<1>5. ClosedOnce'
  <2>1. ASSUME NEW g \in Callers, caller'[g].step = "removed"
        PROVE  /\ ~done[caller'[g].victim]
               /\ \A b \in Accounts : clients[b] # caller'[g].victim
               /\ \A k \in Callers \ {g} : caller'[k].victim # caller'[g].victim
    <3>1. caller'[g] = caller[g]
      BY <1>1, <2>1
    <3>2. QED
      BY <1>2, <2>1, <3>1 DEF ClosedOnce
  <2>2. QED
    BY <1>1, <2>1 DEF ClosedOnce
<1>6. QED
  BY <1>3, <1>4, <1>5

\* Disconnect takes the client out of the map, and so out of the reach of
\* every other Disconnect and Register, before it closes it.
LEMMA RemoveStep ==
  ASSUME IInv, TypeOK', NEW h \in Callers, DisconnectRemove(h)
  PROVE  IInv'
<1> USE RelayAssumption DEF IInv, TypeOK
<1> DEFINE a == caller[h].acct
           v == clients[a]
<1>1. /\ a \in Accounts
      /\ UNCHANGED <<pc, acct, done>>
      /\ clients' = [clients EXCEPT ![a] = None]
      /\ \A g \in Callers \ {h} : caller'[g] = caller[g]
      /\ caller[h].step = "updated" /\ caller[h].victim = None
      /\ caller'[h].victim = v
      /\ caller'[h].step = IF v = None THEN "idle" ELSE "removed"
  BY DEF DisconnectRemove, connVars, HeldVictim, Calls, NoCall
<1>2. v # None => /\ v \in Conns /\ Serving(v) /\ ~done[v]
                  /\ \A b \in Accounts \ {a} : clients[b] # v
                  /\ \A g \in Callers \ {h} : caller[g].victim # v
  <2>1. SUFFICES ASSUME v # None
                 PROVE  /\ v \in Conns /\ Serving(v) /\ ~done[v]
                        /\ \A b \in Accounts \ {a} : clients[b] # v
                        /\ \A g \in Callers \ {h} : caller[g].victim # v
    OBVIOUS
  <2>2. v \in Conns /\ Serving(v) /\ acct[v] = a /\ ~done[v]
    BY <1>1, <2>1 DEF HubHoldsServing, ClosedOnce
  <2>3. \A b \in Accounts \ {a} : clients[b] # v
    BY <2>1, <2>2 DEF HubHoldsServing
  <2>4. \A g \in Callers \ {h} : caller[g].victim # v
    <3>1. SUFFICES ASSUME NEW g \in Callers \ {h} PROVE caller[g].victim # v
      OBVIOUS
    <3>2. CASE caller[g].step = "removed"
      <4>1. \A b \in Accounts : clients[b] # caller[g].victim
        BY <3>2 DEF ClosedOnce
      <4>2. QED
        BY <1>1, <4>1
    <3>3. CASE caller[g].step # "removed"
      BY <2>1, <3>3 DEF HeldVictim
    <3>4. QED
      BY <3>2, <3>3
  <2>5. QED
    BY <2>2, <2>3, <2>4
<1> HIDE DEF a, v
<1>3. Handshake'
  BY <1>1 DEF Handshake, Serving
<1>4. HeldVictim'
  <2>1. /\ caller'[h].step # "removed" => caller'[h].victim = None
        /\ caller'[h].step = "removed" =>
             caller'[h].victim \in Conns /\ Serving(caller'[h].victim)
    BY <1>1, <1>2
  <2>2. ASSUME NEW g \in Callers \ {h}
        PROVE  /\ caller'[g].step # "removed" => caller'[g].victim = None
               /\ caller'[g].step = "removed" =>
                    /\ caller'[g].victim \in Conns
                    /\ pc[caller'[g].victim] \notin {"idle", "auth", "checked"}
    <3>1. caller'[g] = caller[g]
      BY <1>1
    <3>2. QED
      BY <3>1 DEF HeldVictim
  <2>3. QED
    BY <1>1, <2>1, <2>2 DEF HeldVictim, Serving
<1>5. HubHoldsServing'
  BY <1>1 DEF HubHoldsServing, Serving
<1>6. ClosedOnce'
  <2>1. \A b \in Accounts : clients'[b] # None => ~done'[clients'[b]]
    BY <1>1 DEF ClosedOnce
  <2>2. ASSUME NEW g \in Callers, caller'[g].step = "removed"
        PROVE  /\ ~done'[caller'[g].victim]
               /\ \A b \in Accounts : clients'[b] # caller'[g].victim
               /\ \A k \in Callers \ {g} : caller'[k].victim # caller'[g].victim
    <3>1. CASE g = h
      <4>1. v # None /\ caller'[g].victim = v
        BY <1>1, <2>2, <3>1
      <4>2. \A b \in Accounts : clients'[b] # v
        BY <1>1, <1>2, <4>1
      <4>3. QED
        BY <1>1, <1>2, <3>1, <4>1, <4>2
    <3>2. CASE g # h
      <4> DEFINE w == caller[g].victim
      <4>1. /\ caller'[g] = caller[g] /\ w \in Conns /\ ~done[w]
            /\ \A b \in Accounts : clients[b] # w
            /\ \A k \in Callers \ {g} : caller[k].victim # w
        BY <1>1, <2>2, <3>2 DEF ClosedOnce, HeldVictim
      <4>2. v # w /\ w # None
        BY <1>1, <4>1 DEF v
      <4>3. \A b \in Accounts : clients'[b] # w
        BY <1>1, <4>1, <4>2
      <4>4. ASSUME NEW k \in Callers \ {g} PROVE caller'[k].victim # w
        <5>1. CASE k = h
          BY <1>1, <4>2, <5>1
        <5>2. CASE k # h
          <6>1. caller'[k] = caller[k]
            BY <1>1, <5>2
          <6>2. QED
            BY <4>1, <6>1
        <5>3. QED
          BY <5>1, <5>2
      <4>5. QED
        BY <1>1, <4>1, <4>3, <4>4
    <3>3. QED
      BY <3>1, <3>2
  <2>3. QED
    BY <2>1, <2>2 DEF ClosedOnce
<1>7. QED
  BY <1>3, <1>4, <1>5, <1>6
\* Disconnect closes a client no one else can reach.
LEMMA CloseStep ==
  ASSUME IInv, TypeOK', NEW h \in Callers, DisconnectClose(h)
  PROVE  IInv'
<1> USE RelayAssumption DEF IInv, TypeOK
<1> DEFINE v == caller[h].victim
<1>1. /\ UNCHANGED <<clients, pc, acct>>
      /\ v \in Conns /\ pc[v] \notin {"idle", "auth", "checked"}
      /\ done' = [done EXCEPT ![v] = TRUE]
      /\ \A g \in Callers \ {h} : caller'[g] = caller[g]
      /\ caller[h].step = "removed"
      /\ caller'[h].victim = None /\ caller'[h].step = "idle"
  BY DEF DisconnectClose, connVars, HeldVictim, NoCall
<1>2. /\ \A b \in Accounts : clients[b] # v
      /\ \A g \in Callers \ {h} : caller[g].victim # v
  BY <1>1 DEF ClosedOnce
<1> HIDE DEF v
<1>3. Handshake'
  BY <1>1 DEF Handshake, Serving
<1>4. HeldVictim'
  <2>1. ASSUME NEW g \in Callers \ {h}
        PROVE  /\ caller'[g].step # "removed" => caller'[g].victim = None
               /\ caller'[g].step = "removed" =>
                    /\ caller'[g].victim \in Conns
                    /\ pc[caller'[g].victim] \notin {"idle", "auth", "checked"}
    <3>1. caller'[g] = caller[g]
      BY <1>1
    <3>2. QED
      BY <3>1 DEF HeldVictim
  <2>2. QED
    BY <1>1, <2>1 DEF HeldVictim
<1>5. HubHoldsServing'
  BY <1>1 DEF HubHoldsServing, Serving
<1>6. ClosedOnce'
  <2>1. \A b \in Accounts : clients[b] # None => ~done'[clients[b]]
    BY <1>1, <1>2 DEF ClosedOnce
  <2>2. ASSUME NEW g \in Callers, caller'[g].step = "removed"
        PROVE  /\ ~done'[caller'[g].victim]
               /\ \A b \in Accounts : clients[b] # caller'[g].victim
               /\ \A k \in Callers \ {g} : caller'[k].victim # caller'[g].victim
    <3> DEFINE w == caller[g].victim
    <3>1. g # h /\ caller'[g] = caller[g]
      BY <1>1, <2>2
    <3>2. /\ w \in Conns /\ ~done[w] /\ w # v
          /\ \A b \in Accounts : clients[b] # w
          /\ \A k \in Callers \ {g} : caller[k].victim # w
      BY <1>2, <2>2, <3>1 DEF ClosedOnce, HeldVictim
    <3>3. ASSUME NEW k \in Callers \ {g} PROVE caller'[k].victim # w
      <4>1. CASE k = h
        BY <1>1, <3>2, <4>1
      <4>2. CASE k # h
        <5>1. caller'[k] = caller[k]
          BY <1>1, <4>2
        <5>2. QED
          BY <3>2, <5>1
      <4>3. QED
        BY <4>1, <4>2
    <3>4. QED
      BY <1>1, <3>1, <3>2, <3>3
  <2>3. QED
    BY <1>1, <2>1, <2>2 DEF ClosedOnce
<1>7. QED
  BY <1>3, <1>4, <1>5, <1>6

LEMMA SafeStep == IInv /\ [Next]_vars => IInv'
<1> SUFFICES ASSUME IInv, [Next]_vars PROVE IInv'
  OBVIOUS
<1>1. TypeOK'
  BY TypeStep DEF IInv
<1>2. ASSUME NEW a \in Accounts, CreateInstance(a) \/ DeleteInstance(a)
      PROVE  IInv'
  BY <1>1, <1>2, QuietStep DEF CreateInstance, DeleteInstance, connVars
<1>3. ASSUME NEW c \in Conns, ConnStep(c) PROVE IInv'
  <2>1. CASE \/ ServeWS(c) \/ AuthFail(c) \/ StartPumps(c) \/ ReadFail(c)
             \/ \E a \in Accounts : AuthCheck(c, a)
    BY <1>1, <2>1, RunStep
  <2>2. CASE Register(c)
    BY <1>1, <2>2, RegisterStep
  <2>3. CASE Depart(c)
    BY <1>1, <2>3, DepartStep
  <2>4. CASE \/ PeerDrop(c) \/ TakeFrame(c) \/ WriteFrame(c) \/ WriterStop(c)
             \/ \E p \in Pongs : ReadPing(c, p)
    BY <1>1, <2>4, QuietStep
    DEF PeerDrop, TakeFrame, WriteFrame, WriterStop, ReadPing, connVars
  <2>5. QED
    BY <1>3, <2>1, <2>2, <2>3, <2>4 DEF ConnStep
<1>4. ASSUME NEW h \in Callers, CallerStep(h) PROVE IInv'
  BY <1>1, <1>4, RegenStep, RemoveStep, CloseStep DEF CallerStep
<1>5. ASSUME NEW e \in Events, EventStep(e) PROVE IInv'
  BY <1>1, <1>5, QuietStep DEF EventStep, OnEventLookup, OnEventSend, connVars
<1>6. CASE UNCHANGED vars
  BY <1>1, <1>6, QuietStep DEF vars
<1>7. QED
  BY <1>2, <1>3, <1>4, <1>5, <1>6 DEF Next

\* The inductive invariant holds in every state of the relay.
LEMMA Inductive == Spec => []IInv
<1>1. QED
  BY SafeInit, SafeStep, PTL DEF Spec

\* hub.go: a client found in the map belongs to the account it is found
\* under and its Run has not returned, whichever way connects, replacements,
\* departures and disconnects interleave.
THEOREM MapCorrect == Spec => []HubHoldsServing
<1>1. IInv => HubHoldsServing
  BY DEF IInv
<1>2. QED
  BY <1>1, Inductive, PTL

\* client.go: close() runs at most once for a client, so its unlocked test
\* of done never lets close(done) panic.
THEOREM CloseSafe == Spec => []ClosedOnce
<1>1. IInv => ClosedOnce
  BY DEF IInv
<1>2. QED
  BY <1>1, Inductive, PTL

-----------------------------------------------------------------------------
(* Overlapping connections.  LoneClientIsOnline is kept because those that *)
(* are served together have met: the deferred Unregister of one, which     *)
(* takes the account out of the map, then spares whoever met nobody.       *)

Acquainted ==
  \A c, d \in Conns :
    c # d /\ Serving(c) /\ Serving(d) /\ acct[c] = acct[d] => c \in met

\* The condition of LoneClientIsOnline.
LoneNow(c) ==
  /\ Serving(c) /\ ~done[c]
  /\ \A h \in Callers : caller[h].victim # c
  /\ c \notin met

\* A step of one connection.
LEMMA MeetStep ==
  ASSUME IInv, TypeOK', Acquainted, LoneClientIsOnline, NEW c \in Conns, ConnStep(c)
  PROVE  Acquainted' /\ LoneClientIsOnline'
<1> USE RelayAssumption DEF IInv, TypeOK
<1>1. /\ UNCHANGED caller
      /\ \A d \in Conns \ {c} : pc'[d] = pc[d] /\ acct'[d] = acct[d]
  BY ZenonT(60) DEF ConnStep, ServeWS, AuthFail, AuthCheck, Register, StartPumps, ReadPing,
         ReadFail, Depart, PeerDrop, TakeFrame, WriteFrame, WriterStop, connVars
<1>2. CASE Register(c)
  <2> DEFINE others == {d \in Conns : Serving(d) /\ acct[d] = acct[c]}
             old == clients[acct[c]]
  <2>1. /\ acct[c] \in Accounts /\ acct' = acct /\ ~Serving(c) /\ Serving(c)'
        /\ \A d \in Conns \ {c} : Serving(d)' <=> Serving(d)
        /\ met' = IF others = {} THEN met ELSE met \cup others \cup {c}
        /\ clients' = [clients EXCEPT ![acct[c]] = c]
        /\ done' = [d \in Conns |-> done[d] \/ d = old]
    BY <1>2 DEF Register, Handshake, Serving
  <2>2. met \subseteq met'
    BY <2>1
  <2>3. Acquainted'
    <3> SUFFICES ASSUME NEW x \in Conns, NEW y \in Conns, x # y,
                        Serving(x)', Serving(y)', acct[x] = acct[y]
                 PROVE  x \in met'
      BY <2>1 DEF Acquainted
    <3>1. CASE x # c /\ y # c
      BY <2>1, <2>2, <3>1 DEF Acquainted
    <3>2. CASE x = c
      <4>1. y \in others
        BY <2>1, <3>2
      <4>2. QED
        BY <2>1, <3>2, <4>1
    <3>3. CASE y = c
      <4>1. x \in others
        BY <2>1, <3>3
      <4>2. QED
        BY <2>1, <4>1
    <3>4. QED
      BY <3>1, <3>2, <3>3
  <2>4. LoneClientIsOnline'
    <3> SUFFICES ASSUME NEW x \in Conns, LoneNow(x)'
                 PROVE  (clients[acct[x]] = x)'
      BY DEF LoneClientIsOnline, LoneNow
    <3>1. CASE x = c
      BY <2>1, <3>1
    <3>2. CASE x # c
      <4>1. LoneNow(x)
        <5>1. Serving(x) /\ x \notin met
          BY <2>1, <2>2, <3>2 DEF LoneNow
        <5>2. ~done[x]
          BY <2>1 DEF LoneNow
        <5>3. \A h \in Callers : caller[h].victim # x
          BY <1>1 DEF LoneNow
        <5>4. QED
          BY <5>1, <5>2, <5>3 DEF LoneNow
      <4>2. clients[acct[x]] = x /\ acct[x] \in Accounts
        BY <4>1 DEF LoneClientIsOnline, LoneNow, Handshake
      <4>3. acct[x] # acct[c]
        <5>1. SUFFICES ASSUME x \in others PROVE FALSE
          BY <4>1 DEF LoneNow
        <5>2. x \in met'
          BY <2>1, <5>1
        <5>3. QED
          BY <5>2 DEF LoneNow
      <4>4. QED
        BY <2>1, <4>2, <4>3
    <3>3. QED
      BY <3>1, <3>2
  <2>5. QED
    BY <2>3, <2>4
<1>3. CASE Depart(c)
  <2>1. /\ acct' = acct /\ done' = done /\ met' = met \ {c}
        /\ Serving(c) /\ ~Serving(c)' /\ acct[c] \in Accounts
        /\ \A d \in Conns \ {c} : Serving(d)' <=> Serving(d)
        /\ clients' = [clients EXCEPT ![acct[c]] = None]
    BY <1>3 DEF Depart, Handshake, Serving
  <2>2. Acquainted'
    BY <2>1 DEF Acquainted
  <2>3. LoneClientIsOnline'
    <3> SUFFICES ASSUME NEW x \in Conns, LoneNow(x)'
                 PROVE  (clients[acct[x]] = x)'
      BY DEF LoneClientIsOnline, LoneNow
    <3>1. x # c /\ LoneNow(x)
      BY <1>1, <2>1 DEF LoneNow
    <3>2. clients[acct[x]] = x /\ acct[x] \in Accounts
      BY <3>1 DEF LoneClientIsOnline, LoneNow, Handshake
    <3>3. acct[x] # acct[c]
      BY <2>1, <3>1 DEF Acquainted, LoneNow
    <3>4. QED
      BY <2>1, <3>2, <3>3
  <2>4. QED
    BY <2>2, <2>3
<1>4. CASE /\ UNCHANGED <<clients, done, met>>
           /\ Serving(c)' => Serving(c) /\ acct'[c] = acct[c]
  <2>1. \A d \in Conns : Serving(d)' => Serving(d) /\ acct'[d] = acct[d]
    BY <1>1, <1>4 DEF Serving
  <2>2. Acquainted'
    BY <1>4, <2>1 DEF Acquainted
  <2>3. LoneClientIsOnline'
    BY <1>1, <1>4, <2>1 DEF LoneClientIsOnline
  <2>4. QED
    BY <2>2, <2>3
<1>5. CASE \/ ServeWS(c) \/ AuthFail(c) \/ (\E a \in Accounts : AuthCheck(c, a))
           \/ StartPumps(c) \/ (\E p \in Pongs : ReadPing(c, p)) \/ ReadFail(c)
           \/ PeerDrop(c) \/ TakeFrame(c) \/ WriteFrame(c) \/ WriterStop(c)
  BY <1>4, <1>5, ZenonT(60) DEF ServeWS, AuthFail, AuthCheck, StartPumps, ReadPing, ReadFail,
     PeerDrop, TakeFrame, WriteFrame, WriterStop, connVars, Serving
<1>6. QED
  BY <1>2, <1>3, <1>5 DEF ConnStep

\* A step of RegenerateSecret: only its Disconnect takes a client away, and
\* holds it from then on.
LEMMA PartStep ==
  ASSUME IInv, Acquainted, LoneClientIsOnline, NEW h \in Callers, CallerStep(h)
  PROVE  Acquainted' /\ LoneClientIsOnline'
<1> USE RelayAssumption DEF IInv, TypeOK
<1>1. /\ UNCHANGED <<pc, acct, met>>
      /\ \A g \in Callers \ {h} : caller'[g] = caller[g]
      /\ \A d \in Conns : done[d] => done'[d]
  BY SMTT(60) DEF CallerStep, RegenFind, RegenUpdate, RegenAbort, DisconnectRemove,
         DisconnectClose, connVars
<1>2. Acquainted'
  BY <1>1 DEF Acquainted, Serving
<1>3. ASSUME NEW x \in Conns, LoneNow(x)'
      PROVE  (clients[acct[x]] = x)'
  <2>1. LoneNow(x)
    <3>1. caller[h].victim # x
      <4>1. CASE caller[h].step = "removed"
        <5>1. DisconnectClose(h)
          BY <4>1 DEF CallerStep, RegenFind, RegenUpdate, RegenAbort, DisconnectRemove
        <5>2. caller[h].victim \in Conns /\ done'[caller[h].victim]
          BY <4>1, <5>1 DEF DisconnectClose, HeldVictim
        <5>3. QED
          BY <1>3, <5>2 DEF LoneNow
      <4>2. CASE caller[h].step # "removed"
        BY <4>2 DEF HeldVictim
      <4>3. QED
        BY <4>1, <4>2
    <3>2. \A g \in Callers \ {h} : caller[g].victim # x
      BY <1>1, <1>3 DEF LoneNow
    <3>3. Serving(x) /\ ~done[x] /\ x \notin met
      BY <1>1, <1>3 DEF LoneNow, Serving
    <3>4. QED
      BY <3>1, <3>2, <3>3 DEF LoneNow
  <2>2. clients[acct[x]] = x /\ acct[x] \in Accounts
    BY <2>1 DEF LoneClientIsOnline, LoneNow, Handshake
  <2>3. CASE DisconnectRemove(h)
    <3> DEFINE a == caller[h].acct
    <3>1. acct[x] # a
      <4>1. SUFFICES ASSUME acct[x] = a PROVE caller'[h].victim = x
        BY <1>3 DEF LoneNow
      <4>2. clients[a] = x /\ x # None
        BY <2>2, <4>1
      <4>3. caller' = [caller EXCEPT ![h] =
                          [caller[h] EXCEPT !.step = "removed", !.victim = x]]
        BY <2>3, <4>2 DEF DisconnectRemove
      <4>4. caller[h] \in Calls
        OBVIOUS
      <4>5. QED
        BY <4>3, <4>4 DEF Calls
    <3>2. clients' = [clients EXCEPT ![a] = None]
      BY <2>3 DEF DisconnectRemove
    <3>3. QED
      BY <1>1, <2>2, <3>1, <3>2
  <2>4. CASE ~DisconnectRemove(h)
    <3>1. UNCHANGED clients
      BY <2>4 DEF CallerStep, RegenFind, RegenUpdate, RegenAbort, DisconnectClose
    <3>2. QED
      BY <1>1, <2>2, <3>1
  <2>5. QED
    BY <2>3, <2>4
<1>4. QED
  BY <1>2, <1>3 DEF LoneClientIsOnline, LoneNow

LEMMA LoneStep ==
  IInv /\ Acquainted /\ LoneClientIsOnline /\ [Next]_vars
    => Acquainted' /\ LoneClientIsOnline'
<1> SUFFICES ASSUME IInv, Acquainted, LoneClientIsOnline, [Next]_vars
             PROVE  Acquainted' /\ LoneClientIsOnline'
  OBVIOUS
<1>1. CASE UNCHANGED <<clients, pc, acct, done, met, caller>>
  BY <1>1 DEF Acquainted, LoneClientIsOnline, Serving
<1>2. ASSUME NEW a \in Accounts, CreateInstance(a) \/ DeleteInstance(a)
      PROVE  UNCHANGED <<clients, pc, acct, done, met, caller>>
  BY <1>2 DEF CreateInstance, DeleteInstance, connVars
<1>3. ASSUME NEW c \in Conns, ConnStep(c) PROVE Acquainted' /\ LoneClientIsOnline'
  BY <1>3, TypeStep, MeetStep DEF IInv
<1>4. ASSUME NEW h \in Callers, CallerStep(h) PROVE Acquainted' /\ LoneClientIsOnline'
  BY <1>4, PartStep
<1>5. ASSUME NEW e \in Events, EventStep(e)
      PROVE  UNCHANGED <<clients, pc, acct, done, met, caller>>
  BY <1>5 DEF EventStep, OnEventLookup, OnEventSend, connVars
<1>6. QED
  BY <1>1, <1>2, <1>3, <1>4, <1>5 DEF Next, vars

\* hub.go: a connection that nobody told to close and that was never served
\* together with another of its account is the one the hub finds, whoever was
\* there before it and left.
THEOREM LoneOnline == Spec => []LoneClientIsOnline
<1>1. Init => Acquainted /\ LoneClientIsOnline
  BY DEF Init, Acquainted, LoneClientIsOnline, Serving
<1>2. QED
  BY <1>1, LoneStep, Inductive, PTL DEF Spec

-----------------------------------------------------------------------------
(* Regenerated secrets.  The ids of rows start from one, so that the UPDATE *)
(* of a RegenerateSecret never hits an account without a row.               *)

Numbered ==
  /\ \A a \in Accounts : row[a] # NoRow => row[a].id > 0
  /\ \A h \in Callers : caller[h].step = "found" => caller[h].id > 0

\* What a RegenerateSecret writes, and that its disconnect is then on its way.
LEMMA Regenerated ==
  ASSUME IInv, Numbered, NEW h \in Callers, RegenUpdate(h)
  PROVE  /\ UNCHANGED clients /\ UNCHANGED key
         /\ \A g \in Callers \ {h} : caller'[g] = caller[g]
         /\ caller'[h].step = "updated" /\ caller'[h].acct = caller[h].acct
         /\ caller[h].acct \in Accounts
         /\ \A a \in Accounts \ {caller[h].acct} : row'[a] = row[a]
         /\ row'[caller[h].acct].id = row[caller[h].acct].id
         /\ row[caller[h].acct] = NoRow => row'[caller[h].acct] = NoRow
<1>1. /\ caller[h] \in Calls /\ caller[h].acct \in Accounts /\ caller[h].step = "found"
      /\ caller \in [Callers -> Calls] /\ row \in [Accounts -> Rows]
  BY RelayAssumption DEF IInv, TypeOK, RegenUpdate, Calls
<1>2. \A g \in Callers \ {h} : caller'[g] = caller[g]
  BY <1>1 DEF RegenUpdate
<1>3. caller'[h].step = "updated" /\ caller'[h].acct = caller[h].acct
  <2>1. caller' = [caller EXCEPT ![h].step = "updated"]
    BY DEF RegenUpdate
  <2>2. caller'[h] = [caller[h] EXCEPT !.step = "updated"]
    BY <1>1, <2>1
  <2>3. QED
    BY <1>1, <2>2 DEF Calls
<1> DEFINE x == caller[h].acct
<1>4. CASE row' = row
  BY <1>1, <1>2, <1>3, <1>4 DEF RegenUpdate, connVars
<1>5. CASE row[x].id = caller[h].id /\ row' = [row EXCEPT ![x].secret = issued + 1]
  <2> DEFINE c == [row[x] EXCEPT !.secret = issued + 1]
  <2>1. row[x] \in Rows /\ c.id = row[x].id
    BY <1>1 DEF Rows
  <2>2. row' = [row EXCEPT ![x] = c]
    BY <1>1, <1>5
  <2> HIDE DEF c
  <2>3. row'[x].id = row[x].id /\ \A a \in Accounts \ {x} : row'[a] = row[a]
    BY <1>1, <2>1, <2>2
  <2>4. row[x] # NoRow
    BY <1>1, <1>5 DEF Numbered, NoRow
  <2>5. QED
    BY <1>1, <1>2, <1>3, <2>3, <2>4 DEF RegenUpdate, connVars
<1>6. \/ row' = row
      \/ row[x].id = caller[h].id /\ row' = [row EXCEPT ![x].secret = issued + 1]
  BY DEF RegenUpdate, dbVars
<1>7. QED
  BY <1>4, <1>5, <1>6

LEMMA NumberedStep == IInv /\ Numbered /\ [Next]_vars => Numbered'
<1> SUFFICES ASSUME IInv, Numbered, [Next]_vars PROVE Numbered'
  OBVIOUS
<1> USE DEF Numbered
<1>1. row \in [Accounts -> Rows] /\ caller \in [Callers -> Calls] /\ issued \in Nat
  BY DEF IInv, TypeOK
<1>2. ASSUME NEW a \in Accounts, CreateInstance(a) \/ DeleteInstance(a)
      PROVE  Numbered'
  BY <1>1, <1>2 DEF CreateInstance, DeleteInstance
<1>3. ASSUME NEW h \in Callers, NEW a \in Accounts, RegenFind(h, a)
      PROVE  Numbered'
  BY <1>1, <1>3 DEF RegenFind, dbVars
<1>4. ASSUME NEW h \in Callers, RegenUpdate(h)
      PROVE  Numbered'
  BY <1>1, <1>4, Regenerated
<1>5. ASSUME NEW h \in Callers, RegenAbort(h) \/ DisconnectRemove(h) \/ DisconnectClose(h)
      PROVE  Numbered'
  <2>1. UNCHANGED row /\ \A g \in Callers \ {h} : caller'[g] = caller[g]
    BY <1>1, <1>5 DEF RegenAbort, DisconnectRemove, DisconnectClose, dbVars
  <2>2. caller'[h].step # "found"
    <3>1. CASE caller' = [caller EXCEPT ![h] = NoCall]
      BY <1>1, <3>1 DEF NoCall
    <3>2. CASE \E v \in Conns : caller' = [caller EXCEPT ![h].step = "removed", ![h].victim = v]
      BY <1>1, <3>2 DEF Calls
    <3>3. CASE DisconnectRemove(h)
      <4>1. caller[h].acct \in Accounts /\ clients[caller[h].acct] \in Conns \cup {None}
        BY <3>3 DEF IInv, TypeOK, DisconnectRemove, Calls
      <4>2. QED
        BY <1>1, <3>1, <3>2, <3>3, <4>1 DEF DisconnectRemove
    <3>4. QED
      BY <1>5, <3>1, <3>3 DEF RegenAbort, DisconnectClose
  <2>3. QED
    BY <2>1, <2>2
<1>6. CASE UNCHANGED <<row, caller>>
  BY <1>6
<1>7. QED
  BY <1>2, <1>3, <1>4, <1>5, <1>6
     DEF Next, ConnStep, CallerStep, EventStep, ServeWS, AuthFail, AuthCheck, Register,
         StartPumps, ReadPing, ReadFail, Depart, PeerDrop, TakeFrame, WriteFrame, WriterStop,
         OnEventLookup, OnEventSend, dbVars, vars

\* relay.go: RegenerateSecret writes before it disconnects, so that a client
\* with an old secret is about to be disconnected, or registers late: it had
\* passed the check before the secret was written.
THEOREM OutdatedCorrect == Spec => OutdatedOnlyByLateRegister
<1>1. Init => Numbered
  BY DEF Init, Numbered, NoCall
<1>2. IInv /\ Numbered /\ [Next]_vars =>
        [\A a \in Accounts :
           (row[a].id = row'[a].id /\ row[a] # NoRow /\ Outdated(a)' /\ ~Draining(a)')
           => \/ Outdated(a) /\ ~Draining(a)
              \/ pc[clients'[a]] = "checked"]_vars
  <2> SUFFICES ASSUME IInv, Numbered, Next, NEW a \in Accounts,
                      row[a].id = row'[a].id, row[a] # NoRow, Outdated(a)', ~Draining(a)',
                      pc[clients'[a]] # "checked"
               PROVE  Outdated(a) /\ ~Draining(a)
    OBVIOUS
  <2>1. /\ row \in [Accounts -> Rows] /\ caller \in [Callers -> Calls]
        /\ clients \in [Accounts -> Conns \cup {None}] /\ issued \in Nat
        /\ acct \in [Conns -> Accounts \cup {None}] /\ key \in [Conns -> Nat]
        /\ pc \in [Conns -> Stages] /\ None \notin Conns \cup Accounts
    BY RelayAssumption DEF IInv, TypeOK
  <2>2. clients'[a] # None /\ key'[clients'[a]] # row'[a].secret
    BY DEF Outdated
  <2>3. CASE UNCHANGED <<row, clients, key, caller>>
    BY <2>2, <2>3 DEF Outdated, Draining
  <2>4. ASSUME NEW b \in Accounts, CreateInstance(b) \/ DeleteInstance(b)
        PROVE  Outdated(a) /\ ~Draining(a)
    <3>1. a # b
      BY <2>1, <2>4 DEF CreateInstance, DeleteInstance, Numbered, NoRow
    <3>2. row'[a] = row[a] /\ UNCHANGED <<clients, key, caller>>
      BY <2>1, <2>4, <3>1 DEF CreateInstance, DeleteInstance, connVars
    <3>3. QED
      BY <2>2, <3>2 DEF Outdated, Draining
  <2>5. ASSUME NEW c \in Conns, NEW b \in Accounts, AuthCheck(c, b)
        PROVE  Outdated(a) /\ ~Draining(a)
    <3>1. UNCHANGED <<row, clients, caller>> /\ pc[c] = "auth"
      BY <2>5 DEF AuthCheck, dbVars
    <3>2. clients[a] # c
      BY <2>1, <3>1 DEF IInv, HubHoldsServing, Serving
    <3>3. key'[clients[a]] = key[clients[a]]
      BY <2>1, <2>5, <3>2 DEF AuthCheck
    <3>4. QED
      BY <2>2, <3>1, <3>3 DEF Outdated, Draining
  <2>6. ASSUME NEW c \in Conns, Register(c)
        PROVE  Outdated(a) /\ ~Draining(a)
    <3>1. UNCHANGED <<row, key, caller>> /\ pc[c] = "checked"
      BY <2>6 DEF Register, dbVars
    <3>2. clients'[a] = clients[a]
      BY <2>1, <2>6, <3>1 DEF Register
    <3>3. QED
      BY <2>2, <3>1, <3>2 DEF Outdated, Draining
  <2>7. ASSUME NEW c \in Conns, Depart(c)
        PROVE  Outdated(a) /\ ~Draining(a)
    <3>1. UNCHANGED <<row, key, caller>> /\ clients' = [clients EXCEPT ![acct[c]] = None]
      BY <2>7 DEF Depart, dbVars
    <3>2. clients'[a] = clients[a]
      BY <2>1, <2>2, <3>1
    <3>3. QED
      BY <2>2, <3>1, <3>2 DEF Outdated, Draining
  <2>8. ASSUME NEW h \in Callers, NEW b \in Accounts, RegenFind(h, b)
        PROVE  Outdated(a) /\ ~Draining(a)
    <3>1. /\ UNCHANGED <<row, key, clients>> /\ caller[h].step = "idle"
          /\ \A g \in Callers \ {h} : caller'[g] = caller[g]
      BY <2>1, <2>8 DEF RegenFind, dbVars, connVars
    <3>2. QED
      BY <2>2, <3>1 DEF Outdated, Draining
  <2>9. ASSUME NEW h \in Callers, RegenUpdate(h)
        PROVE  Outdated(a) /\ ~Draining(a)
    <3>1. caller[h].acct # a
      BY <2>9, Regenerated DEF Draining
    <3>2. row'[a] = row[a] /\ UNCHANGED <<clients, key>> /\ caller[h].step = "found"
      BY <2>9, <3>1, Regenerated DEF RegenUpdate
    <3>3. \A g \in Callers \ {h} : caller'[g] = caller[g]
      BY <2>9, Regenerated
    <3>4. QED
      BY <2>2, <3>2, <3>3 DEF Outdated, Draining
  <2>10. ASSUME NEW h \in Callers, RegenAbort(h) \/ DisconnectClose(h)
         PROVE  Outdated(a) /\ ~Draining(a)
    <3>1. /\ UNCHANGED <<row, key, clients>> /\ caller[h].step # "updated"
          /\ \A g \in Callers \ {h} : caller'[g] = caller[g]
      BY <2>1, <2>10 DEF RegenAbort, DisconnectClose, dbVars, connVars
    <3>2. QED
      BY <2>2, <3>1 DEF Outdated, Draining
  <2>11. ASSUME NEW h \in Callers, DisconnectRemove(h)
         PROVE  Outdated(a) /\ ~Draining(a)
    <3>1. /\ UNCHANGED <<row, key>> /\ clients' = [clients EXCEPT ![caller[h].acct] = None]
          /\ \A g \in Callers \ {h} : caller'[g] = caller[g]
      BY <2>1, <2>11 DEF DisconnectRemove, dbVars, connVars
    <3>2. caller[h].acct # a
      BY <2>1, <2>2, <3>1
    <3>3. clients'[a] = clients[a]
      BY <2>1, <3>1, <3>2
    <3>4. QED
      BY <2>2, <3>1, <3>2, <3>3 DEF Outdated, Draining
  <2>12. QED
    BY <2>3, <2>4, <2>5, <2>6, <2>7, <2>8, <2>9, <2>10, <2>11
       DEF Next, ConnStep, CallerStep, EventStep, ServeWS, AuthFail, StartPumps, ReadPing,
           ReadFail, PeerDrop, TakeFrame, WriteFrame, WriterStop, OnEventLookup, OnEventSend,
           dbVars, connVars
<1>3. QED
  BY <1>1, <1>2, NumberedStep, Inductive, PTL DEF Spec, OutdatedOnlyByLateRegister
-----------------------------------------------------------------------------
(* The frames: on which connection an event may be found, and that the     *)
(* outbox, the frame writePump holds and what it has written together      *)
(* implement RelayLink.                                                    *)

\* The client OnEvent found is of the account the event is for.  (It has an
\* account, so no handshake will give it another.)
TargetOfDest ==
  \A e \in Events : fate[e] \in {"looked_up", "queued"} =>
    /\ target[e] \in Conns
    /\ dest[e] \in Accounts
    /\ acct[target[e]] = dest[e]

\* A frame is on a connection only if it was accepted there.
AcceptedFirst ==
  \A c \in Conns :
    /\ \A e \in Events : OnLine(c, e) => fate[e] = "queued" /\ target[e] = c
    /\ \A p \in Pongs : OnLine(c, p) => p \in pinged

\* writePump starts once, and holds a frame only from taking it to writing it
\* or stopping.
HoldsOnlyWriting ==
  \A c \in Conns :
    /\ pc[c] \in {"idle", "auth", "checked", "registered"} => writer[c] = "off"
    /\ writer[c] \in {"off", "on"} => holding[c] = None

DInv == IInv /\ TargetOfDest /\ AcceptedFirst /\ HoldsOnlyWriting

LEMMA DeliveryInit == Init => DInv
<1> SUFFICES ASSUME Init PROVE DInv
  OBVIOUS
<1>1. IInv
  BY SafeInit
<1>2. TargetOfDest /\ HoldsOnlyWriting
  BY DEF Init, TargetOfDest, HoldsOnlyWriting
<1>3. AcceptedFirst
  BY RelayAssumption DEF Init, AcceptedFirst, OnLine
<1>4. QED
  BY <1>1, <1>2, <1>3 DEF DInv

\* A step that leaves the frames and the events alone keeps them where they are.
LEMMA SameFrames ==
  ASSUME DInv, IInv', UNCHANGED <<outbox, holding, sent, fate, dest, target, pinged>>,
         \A c \in Conns : acct[c] \in Accounts => acct'[c] = acct[c],
         HoldsOnlyWriting'
  PROVE  DInv'
<1>1. TargetOfDest'
  BY DEF DInv, TargetOfDest
<1>2. AcceptedFirst'
  BY DEF DInv, AcceptedFirst, OnLine
<1>3. QED
  BY <1>1, <1>2 DEF DInv

\* A frame may come to a connection: one frame, at the end of its outbox.
LEMMA Enqueued ==
  ASSUME TypeOK, NEW c \in Conns, NEW f \in Frames,
         UNCHANGED <<holding, sent>>,
         outbox' = [outbox EXCEPT ![c] = Append(@, f)]
  PROVE  \A d \in Conns, g \in Frames : OnLine(d, g)' => OnLine(d, g) \/ (d = c /\ g = f)
<1> SUFFICES ASSUME NEW d \in Conns, NEW g \in Frames, OnLine(d, g)', ~(d = c /\ g = f)
             PROVE  OnLine(d, g)
  OBVIOUS
<1>1. outbox[c] \in Seq(Frames) /\ outbox \in [Conns -> Seq(Frames)]
  BY DEF TypeOK
<1>2. CASE d # c
  BY <1>1, <1>2 DEF OnLine
<1>3. CASE d = c
  <2>1. outbox'[c] = Append(outbox[c], f) /\ g # f
    BY <1>1, <1>3
  <2>2. ASSUME NEW i \in DOMAIN outbox'[c], outbox'[c][i] = g
        PROVE  i \in DOMAIN outbox[c] /\ outbox[c][i] = g
    BY <1>1, <2>1, <2>2
  <2>3. QED
    BY <1>3, <2>2 DEF OnLine
<1>4. QED
  BY <1>2, <1>3

\* A frame that writePump takes or writes stays on its connection.
LEMMA Moved ==
  ASSUME TypeOK, NEW c \in Conns, TakeFrame(c) \/ WriteFrame(c)
  PROVE  \A d \in Conns, g \in Frames : OnLine(d, g)' => OnLine(d, g)
<1> SUFFICES ASSUME NEW d \in Conns, NEW g \in Frames, OnLine(d, g)'
             PROVE  OnLine(d, g)
  OBVIOUS
<1>1. /\ outbox \in [Conns -> Seq(Frames)] /\ sent \in [Conns -> Seq(Frames)]
      /\ holding \in [Conns -> Frames \cup {None}]
  BY DEF TypeOK
<1>2. g # None
  BY RelayAssumption DEF Frames
<1>3. CASE d # c
  BY <1>1, <1>3 DEF OnLine, TakeFrame, WriteFrame
<1>4. CASE d = c /\ TakeFrame(c)
  <2>1. /\ outbox[c] # <<>> /\ outbox'[c] = Tail(outbox[c])
        /\ holding'[c] = Head(outbox[c]) /\ sent'[c] = sent[c]
    BY <1>1, <1>4 DEF TakeFrame
  <2>2. Head(outbox[c]) = outbox[c][1] /\ 1 \in DOMAIN outbox[c]
    BY <1>1, <2>1
  <2>3. ASSUME NEW i \in DOMAIN Tail(outbox[c])
        PROVE  i + 1 \in DOMAIN outbox[c] /\ Tail(outbox[c])[i] = outbox[c][i + 1]
    BY <1>1, <2>1
  <2>4. QED
    BY <1>4, <2>1, <2>2, <2>3 DEF OnLine
<1>5. CASE d = c /\ WriteFrame(c)
  <2>1. /\ outbox'[c] = outbox[c] /\ holding'[c] = None
        /\ sent'[c] = Append(sent[c], holding[c])
        /\ holding[c] \in Frames /\ sent[c] \in Seq(Frames)
    BY <1>1, <1>5 DEF WriteFrame, TypeOK
  <2>2. ASSUME NEW i \in DOMAIN sent'[c]
        PROVE  \/ i \in DOMAIN sent[c] /\ sent'[c][i] = sent[c][i]
               \/ sent'[c][i] = holding[c]
    BY <2>1, <2>2
  <2>3. QED
    BY <1>2, <1>5, <2>1, <2>2 DEF OnLine
<1>6. QED
  BY <1>3, <1>4, <1>5

LEMMA DeliveryStep == DInv /\ [Next]_vars => DInv'
<1> SUFFICES ASSUME DInv, [Next]_vars PROVE DInv'
  OBVIOUS
<1>1. IInv' /\ IInv /\ TypeOK /\ TypeOK'
  BY SafeStep DEF DInv, IInv
<1>2. ASSUME NEW c \in Conns, TakeFrame(c) \/ WriteFrame(c) PROVE DInv'
  <2>1. UNCHANGED <<fate, dest, target, pinged, acct>>
    BY <1>2 DEF TakeFrame, WriteFrame, eventVars
  <2>2. TargetOfDest'
    BY <2>1 DEF DInv, TargetOfDest
  <2>3. AcceptedFirst'
    BY <1>1, <1>2, <2>1, Moved DEF DInv, AcceptedFirst, Frames
  <2>4. HoldsOnlyWriting'
    <3>1. /\ pc' = pc /\ writer[c] \in {"on", "writing"}
          /\ \/ writer' = [writer EXCEPT ![c] = "writing"]
             \/ writer' = [writer EXCEPT ![c] = "on"] /\ holding'[c] = None
          /\ \A d \in Conns \ {c} : holding'[d] = holding[d]
      BY <1>1, <1>2 DEF TakeFrame, WriteFrame, TypeOK
    <3>2. pc[c] \notin {"idle", "auth", "checked", "registered"}
      BY <3>1 DEF DInv, HoldsOnlyWriting
    <3>3. HoldsOnlyWriting /\ writer \in [Conns -> {"off", "on", "writing", "stopped"}]
      BY <1>1 DEF DInv, TypeOK
    <3>4. QED
      BY <3>1, <3>2, <3>3 DEF HoldsOnlyWriting
  <2>5. QED
    BY <1>1, <2>2, <2>3, <2>4 DEF DInv
<1>3. ASSUME NEW c \in Conns, NEW p \in Pongs, ReadPing(c, p) PROVE DInv'
  <2>1. /\ UNCHANGED <<fate, dest, target, acct, writer, holding, sent>>
        /\ pinged' = pinged \cup {p}
    BY <1>3 DEF ReadPing, connVars
  <2>2. \A d \in Conns, g \in Frames : OnLine(d, g)' => OnLine(d, g) \/ g = p
    <3>1. CASE outbox' = [outbox EXCEPT ![c] = Append(@, p)]
      BY <1>1, <2>1, <3>1, Enqueued DEF Frames
    <3>2. CASE UNCHANGED outbox
      BY <2>1, <3>2 DEF OnLine
    <3>3. QED
      BY <1>3, <3>1, <3>2 DEF ReadPing
  <2>3. AcceptedFirst'
    BY <2>1, <2>2, RelayAssumption DEF DInv, AcceptedFirst, Frames
  <2>4. TargetOfDest' /\ HoldsOnlyWriting'
    BY <1>3, <2>1 DEF DInv, TargetOfDest, HoldsOnlyWriting, ReadPing, connVars
  <2>5. QED
    BY <1>1, <2>3, <2>4 DEF DInv
<1>4. ASSUME NEW e \in Events, NEW a \in Accounts, OnEventLookup(e, a) PROVE DInv'
  <2>1. /\ UNCHANGED <<outbox, holding, sent, writer, acct, pinged>>
        /\ fate[e] = "new"
        /\ \A x \in Events \ {e} :
             fate'[x] = fate[x] /\ dest'[x] = dest[x] /\ target'[x] = target[x]
        /\ dest'[e] = a /\ target'[e] = clients[a]
        /\ fate'[e] = IF clients[a] = None THEN "not_connected" ELSE "looked_up"
    BY <1>1, <1>4 DEF OnEventLookup, connVars, TypeOK
  <2>2. clients[a] # None => clients[a] \in Conns /\ acct[clients[a]] = a
    BY <1>1 DEF IInv, TypeOK, HubHoldsServing
  <2>3. TargetOfDest'
    BY <2>1, <2>2 DEF DInv, TargetOfDest
  <2>4. AcceptedFirst'
    BY <2>1 DEF DInv, AcceptedFirst, OnLine
  <2>5. HoldsOnlyWriting'
    BY <1>4, <2>1 DEF DInv, HoldsOnlyWriting, OnEventLookup, connVars
  <2>6. QED
    BY <1>1, <2>3, <2>4, <2>5 DEF DInv
<1>5. ASSUME NEW e \in Events, OnEventSend(e) PROVE DInv'
  <2> DEFINE c == target[e]
  <2>1. /\ UNCHANGED <<holding, sent, writer, acct, pinged, dest, target>>
        /\ fate[e] = "looked_up" /\ c \in Conns
        /\ \A x \in Events \ {e} : fate'[x] = fate[x]
    BY <1>1, <1>5 DEF OnEventSend, connVars, DInv, TargetOfDest, TypeOK
  <2>2. \/ outbox' = [outbox EXCEPT ![c] = Append(@, e)] /\ fate'[e] = "queued"
        \/ UNCHANGED outbox /\ fate'[e] = "client_busy"
    BY <1>1, <1>5 DEF OnEventSend, TypeOK
  <2>3. \A d \in Conns, g \in Frames :
          OnLine(d, g)' => OnLine(d, g) \/ (d = c /\ g = e /\ fate'[e] = "queued")
    <3>1. CASE outbox' = [outbox EXCEPT ![c] = Append(@, e)] /\ fate'[e] = "queued"
      <4>1. e \in Frames
        BY DEF Frames
      <4>2. QED
        BY <1>1, <2>1, <3>1, <4>1, Enqueued
    <3>2. CASE UNCHANGED outbox
      BY <2>1, <3>2 DEF OnLine
    <3>3. QED
      BY <2>2, <3>1, <3>2
  <2>4. TargetOfDest'
    BY <2>1, <2>2 DEF DInv, TargetOfDest
  <2>5. AcceptedFirst'
    BY <2>1, <2>3, RelayAssumption DEF DInv, AcceptedFirst, Frames
  <2>6. HoldsOnlyWriting'
    BY <1>5, <2>1 DEF DInv, HoldsOnlyWriting, OnEventSend, connVars
  <2>7. QED
    BY <1>1, <2>4, <2>5, <2>6 DEF DInv
<1>6. ASSUME NEW c \in Conns, NEW a \in Accounts, AuthCheck(c, a) PROVE DInv'
  <2>1. acct[c] = None
    BY <1>1, <1>6 DEF AuthCheck, IInv, Handshake
  <2>2. QED
    <3>1. HoldsOnlyWriting'
      BY <1>1, <1>6 DEF AuthCheck, DInv, HoldsOnlyWriting, TypeOK
    <3>2. QED
      BY <1>1, <1>6, <2>1, <3>1, SameFrames, RelayAssumption DEF AuthCheck, eventVars, TypeOK
<1>7. ASSUME NEW c \in Conns,
             \/ ServeWS(c) \/ AuthFail(c) \/ Register(c) \/ StartPumps(c)
             \/ ReadFail(c) \/ Depart(c) \/ PeerDrop(c) \/ WriterStop(c)
      PROVE  DInv'
  <2>1. UNCHANGED <<outbox, holding, sent, fate, dest, target, pinged, acct>>
    BY <1>7 DEF ServeWS, AuthFail, Register, StartPumps, ReadFail, Depart, PeerDrop,
       WriterStop, eventVars
  <2>2. HoldsOnlyWriting'
    <3>1. HoldsOnlyWriting /\ UNCHANGED holding
      BY <2>1 DEF DInv
    <3>2. CASE ServeWS(c) \/ AuthFail(c) \/ Register(c)
      BY <1>1, <3>1, <3>2, SMTT(60) DEF ServeWS, AuthFail, Register, HoldsOnlyWriting, TypeOK
    <3>3. CASE StartPumps(c)
      BY <1>1, <3>1, <3>3 DEF StartPumps, HoldsOnlyWriting, TypeOK
    <3>4. CASE ReadFail(c) \/ Depart(c) \/ PeerDrop(c)
      <4>1. /\ UNCHANGED writer
            /\ \/ pc' = [pc EXCEPT ![c] = "leaving"]
               \/ pc' = [pc EXCEPT ![c] = "closed"]
               \/ UNCHANGED pc
        BY <3>4 DEF ReadFail, Depart, PeerDrop
      <4>2. pc \in [Conns -> Stages]
        BY <1>1 DEF TypeOK
      <4>3. QED
        BY <3>1, <4>1, <4>2 DEF HoldsOnlyWriting
    <3>5. CASE WriterStop(c)
      <4>1. /\ pc' = pc /\ writer[c] \in {"on", "writing"}
            /\ writer' = [writer EXCEPT ![c] = "stopped"]
        BY <3>5 DEF WriterStop
      <4>2. pc[c] \notin {"idle", "auth", "checked", "registered"}
        BY <3>1, <4>1 DEF HoldsOnlyWriting
      <4>3. writer \in [Conns -> {"off", "on", "writing", "stopped"}]
        BY <1>1 DEF TypeOK
      <4>4. QED
        BY <3>1, <4>1, <4>2, <4>3 DEF HoldsOnlyWriting
    <3>6. QED
      BY <1>7, <3>2, <3>3, <3>4, <3>5
  <2>3. QED
    BY <1>1, <2>1, <2>2, SameFrames
<1>8. ASSUME NEW a \in Accounts, CreateInstance(a) \/ DeleteInstance(a) PROVE DInv'
  BY <1>1, <1>8, SameFrames DEF CreateInstance, DeleteInstance, connVars, eventVars, DInv,
     HoldsOnlyWriting
<1>9. ASSUME NEW h \in Callers, CallerStep(h) PROVE DInv'
  <2>1. UNCHANGED <<connVars, outbox, eventVars>>
    BY <1>9 DEF CallerStep, RegenFind, RegenUpdate, RegenAbort, DisconnectRemove,
       DisconnectClose
  <2>2. QED
    BY <1>1, <2>1, SameFrames DEF connVars, eventVars, DInv, HoldsOnlyWriting
<1>10. CASE UNCHANGED vars
  BY <1>1, <1>10, SameFrames DEF vars, DInv, HoldsOnlyWriting
<1>11. QED
  BY <1>2, <1>3, <1>4, <1>5, <1>6, <1>7, <1>8, <1>9, <1>10
     DEF Next, ConnStep, EventStep

LEMMA DeliveryInductive == Spec => []DInv
<1>1. QED
  BY DeliveryInit, DeliveryStep, PTL DEF Spec

\* hub.go: an event is found only on a connection of the account it is for,
\* and only if its sender was told that it was queued.
THEOREM EventsCorrect == Spec => []EventsWhereTold
<1>1. DInv => EventsWhereTold
  BY DEF DInv, TargetOfDest, AcceptedFirst, EventsWhereTold
<1>2. QED
  BY <1>1, DeliveryInductive, PTL
-----------------------------------------------------------------------------
(* The refinement of RelayLink.                                            *)

InHand(c) == IF holding[c] = None THEN <<>> ELSE <<holding[c]>>
Line(c) == sent[c] \o InHand(c) \o outbox[c]

LEMMA AppendLast ==
  ASSUME NEW s \in Seq(Frames), NEW h \in Seq(Frames), NEW o \in Seq(Frames),
         NEW f \in Frames
  PROVE  s \o h \o Append(o, f) = Append(s \o h \o o, f)
OBVIOUS

LEMMA TakeFirst ==
  ASSUME NEW s \in Seq(Frames), NEW o \in Seq(Frames), o # <<>>
  PROVE  s \o <<Head(o)>> \o Tail(o) = s \o <<>> \o o
OBVIOUS

LEMMA WriteMiddle ==
  ASSUME NEW s \in Seq(Frames), NEW o \in Seq(Frames), NEW f \in Frames
  PROVE  /\ Append(s, f) \o <<>> \o o = s \o <<f>> \o o
         /\ Len(s) < Len(s \o <<f>> \o o)
         /\ Len(Append(s, f)) = Len(s) + 1
OBVIOUS

LEMMA ElementOf ==
  ASSUME NEW s \in Seq(Frames), NEW o \in Seq(Frames), NEW i \in DOMAIN (s \o o)
  PROVE  \/ i \in DOMAIN s /\ (s \o o)[i] = s[i]
         \/ \E j \in DOMAIN o : (s \o o)[i] = o[j]
<1>1. CASE i <= Len(s)
  BY <1>1
<1>2. CASE ~(i <= Len(s))
  <2>1. i - Len(s) \in DOMAIN o /\ (s \o o)[i] = o[i - Len(s)]
    BY <1>2
  <2>2. QED
    BY <2>1
<1>3. QED
  BY <1>1, <1>2

\* What is in a line is on the connection.
LEMMA LineOnLine ==
  ASSUME TypeOK, NEW c \in Conns, NEW i \in DOMAIN Line(c)
  PROVE  OnLine(c, Line(c)[i])
<1>1. sent[c] \in Seq(Frames) /\ outbox[c] \in Seq(Frames) /\ InHand(c) \in Seq(Frames)
  BY DEF TypeOK, InHand
<1>2. \/ i \in DOMAIN sent[c] /\ Line(c)[i] = sent[c][i]
      \/ \E j \in DOMAIN InHand(c) : Line(c)[i] = InHand(c)[j]
      \/ \E j \in DOMAIN outbox[c] : Line(c)[i] = outbox[c][j]
  <2>1. Line(c) = (sent[c] \o InHand(c)) \o outbox[c]
    BY DEF Line
  <2>2. sent[c] \o InHand(c) \in Seq(Frames)
    BY <1>1
  <2>3. \/ i \in DOMAIN (sent[c] \o InHand(c)) /\ Line(c)[i] = (sent[c] \o InHand(c))[i]
        \/ \E j \in DOMAIN outbox[c] : Line(c)[i] = outbox[c][j]
    <3> DEFINE s == sent[c] \o InHand(c)
               o == outbox[c]
    <3>1. s \in Seq(Frames) /\ o \in Seq(Frames) /\ i \in DOMAIN (s \o o) /\ Line(c) = s \o o
      BY <1>1, <2>1, <2>2
    <3> HIDE DEF s, o
    <3>2. \/ i \in DOMAIN s /\ (s \o o)[i] = s[i]
          \/ \E j \in DOMAIN o : (s \o o)[i] = o[j]
      BY <3>1, ElementOf
    <3>3. QED
      BY <3>1, <3>2 DEF s, o
  <2>4. QED
    BY <1>1, <2>3, ElementOf
<1>3. \A j \in DOMAIN InHand(c) : InHand(c)[j] = holding[c]
  BY DEF InHand
<1>4. QED
  BY <1>2, <1>3 DEF OnLine

\* A step that moves no frame and stops no writer is not seen.
LEMMA LinkStutter ==
  ASSUME UNCHANGED <<sent, holding, outbox>>,
         {c \in Conns : writer'[c] = "stopped"} = {c \in Conns : writer[c] = "stopped"}
  PROVE  UNCHANGED Link!linkVars
BY DEF Link!linkVars

\* A frame that is nowhere yet joins the line of a connection.
LEMMA LinkAccept ==
  ASSUME TypeOK, NEW c \in Conns, NEW f \in Frames,
         \A d \in Conns : ~OnLine(d, f),
         outbox' = [outbox EXCEPT ![c] = Append(@, f)],
         UNCHANGED <<sent, holding, writer>>
  PROVE  Link!Accept(c, f)
<1>1. \A d \in Conns : \A i \in DOMAIN Line(d) : Line(d)[i] # f
  BY LineOnLine
<1>2. Line(c)' = Append(Line(c), f)
  <2>1. sent[c] \in Seq(Frames) /\ outbox[c] \in Seq(Frames) /\ InHand(c) \in Seq(Frames)
    BY DEF TypeOK, InHand
  <2>2. outbox'[c] = Append(outbox[c], f) /\ sent'[c] = sent[c] /\ InHand(c)' = InHand(c)
    BY DEF TypeOK, InHand
  <2>3. QED
    <3>1. sent[c] \o InHand(c) \o Append(outbox[c], f)
            = Append(sent[c] \o InHand(c) \o outbox[c], f)
      BY <2>1, AppendLast
    <3>2. QED
      BY <2>2, <3>1 DEF Line
<1>3. \A d \in Conns \ {c} : Line(d)' = Line(d)
  BY DEF TypeOK, Line, InHand
<1>4. QED
  BY <1>1, <1>2, <1>3 DEF Link!Accept, Line, InHand

LEMMA LinkStep == DInv /\ [Next]_vars => [Link!LinkNext]_(Link!linkVars)
<1> SUFFICES ASSUME DInv, [Next]_vars PROVE Link!LinkNext \/ UNCHANGED Link!linkVars
  OBVIOUS
<1>1. TypeOK
  BY DEF DInv, IInv
<1>2. ASSUME NEW c \in Conns, NEW p \in Pongs, ReadPing(c, p)
      PROVE  Link!LinkNext \/ UNCHANGED Link!linkVars
  <2>1. p \in Frames /\ \A d \in Conns : ~OnLine(d, p)
    BY <1>2 DEF ReadPing, DInv, AcceptedFirst, Frames
  <2>2. UNCHANGED <<sent, holding, writer>>
    BY <1>2 DEF ReadPing, connVars
  <2>3. CASE outbox' = [outbox EXCEPT ![c] = Append(@, p)]
    BY <1>1, <2>1, <2>2, <2>3, LinkAccept DEF Link!LinkNext
  <2>4. CASE UNCHANGED outbox
    BY <2>2, <2>4, LinkStutter
  <2>5. QED
    BY <1>2, <2>3, <2>4 DEF ReadPing
<1>3. ASSUME NEW e \in Events, OnEventSend(e)
      PROVE  Link!LinkNext \/ UNCHANGED Link!linkVars
  <2>1. e \in Frames /\ \A d \in Conns : ~OnLine(d, e)
    BY <1>3 DEF OnEventSend, DInv, AcceptedFirst, Frames
  <2>2. UNCHANGED <<sent, holding, writer>> /\ target[e] \in Conns
    BY <1>3 DEF OnEventSend, connVars, DInv, TargetOfDest
  <2>3. CASE outbox' = [outbox EXCEPT ![target[e]] = Append(@, e)]
    BY <1>1, <2>1, <2>2, <2>3, LinkAccept DEF Link!LinkNext
  <2>4. CASE UNCHANGED outbox
    BY <2>2, <2>4, LinkStutter
  <2>5. QED
    BY <1>3, <2>3, <2>4 DEF OnEventSend
<1>4. ASSUME NEW c \in Conns, TakeFrame(c) PROVE UNCHANGED Link!linkVars
  <2>1. holding[c] = None
    BY <1>4 DEF TakeFrame, DInv, HoldsOnlyWriting
  <2>2. /\ outbox[c] \in Seq(Frames) /\ outbox[c] # <<>> /\ sent[c] \in Seq(Frames)
        /\ Head(outbox[c]) \in Frames
    BY <1>1, <1>4 DEF TakeFrame, TypeOK
  <2>3. Head(outbox[c]) # None
    BY <2>2, RelayAssumption DEF Frames
  <2>4. /\ sent' = sent /\ InHand(c)' = <<Head(outbox[c])>>
        /\ outbox'[c] = Tail(outbox[c]) /\ InHand(c) = <<>>
    BY <1>1, <1>4, <2>1, <2>3 DEF TakeFrame, TypeOK, InHand
  <2>5. Line(c)' = Line(c)
    BY <2>2, <2>4, TakeFirst DEF Line
  <2>6. \A d \in Conns \ {c} : Line(d)' = Line(d)
    BY <1>1, <1>4 DEF TakeFrame, TypeOK, Line, InHand
  <2>7. {d \in Conns : writer'[d] = "stopped"} = {d \in Conns : writer[d] = "stopped"}
    BY <1>1, <1>4 DEF TakeFrame, TypeOK
  <2>8. QED
    BY <2>4, <2>5, <2>6, <2>7 DEF Link!linkVars, Line, InHand
<1>5. ASSUME NEW c \in Conns, WriteFrame(c) PROVE Link!Hand(c)
  <2>1. /\ holding[c] \in Frames /\ holding[c] # None
        /\ outbox[c] \in Seq(Frames) /\ sent[c] \in Seq(Frames)
    BY <1>1, <1>5 DEF WriteFrame, TypeOK
  <2>2. /\ sent'[c] = Append(sent[c], holding[c]) /\ InHand(c)' = <<>>
        /\ outbox' = outbox /\ InHand(c) = <<holding[c]>>
    BY <1>1, <1>5, <2>1 DEF WriteFrame, TypeOK, InHand
  <2>3. Line(c)' = Line(c) /\ Len(sent[c]) < Len(Line(c)) /\ Len(sent'[c]) = Len(sent[c]) + 1
    <3>1. Line(c)' = Append(sent[c], holding[c]) \o <<>> \o outbox[c]
      BY <2>2 DEF Line
    <3>2. Line(c) = sent[c] \o <<holding[c]>> \o outbox[c]
      BY <2>2 DEF Line
    <3>3. QED
      BY <2>1, <2>2, <3>1, <3>2, WriteMiddle
  <2>4. \A d \in Conns \ {c} : Line(d)' = Line(d) /\ sent'[d] = sent[d]
    BY <1>1, <1>5 DEF WriteFrame, TypeOK, Line, InHand
  <2>5. /\ {d \in Conns : writer'[d] = "stopped"} = {d \in Conns : writer[d] = "stopped"}
        /\ writer[c] # "stopped"
    BY <1>1, <1>5 DEF WriteFrame, TypeOK
  <2>6. QED
    <3>1. [d \in Conns |-> Line(d)]' = [d \in Conns |-> Line(d)]
      BY <2>3, <2>4
    <3>2. [d \in Conns |-> Len(sent[d])]'
            = [[d \in Conns |-> Len(sent[d])] EXCEPT ![c] = @ + 1]
      BY <2>3, <2>4
    <3>3. QED
      BY <2>3, <2>5, <3>1, <3>2 DEF Link!Hand, Line, InHand
<1>6. ASSUME NEW c \in Conns, WriterStop(c) PROVE Link!Cut(c)
  <2>1. UNCHANGED <<sent, holding, outbox>> /\ writer[c] # "stopped"
    BY <1>6 DEF WriterStop
  <2>2. {d \in Conns : writer'[d] = "stopped"} = {d \in Conns : writer[d] = "stopped"} \cup {c}
    BY <1>1, <1>6 DEF WriterStop, TypeOK
  <2>3. QED
    BY <2>1, <2>2 DEF Link!Cut
<1>7. ASSUME NEW c \in Conns, StartPumps(c) PROVE UNCHANGED Link!linkVars
  <2>1. writer[c] = "off" /\ UNCHANGED <<sent, holding, outbox>>
    BY <1>7 DEF StartPumps, DInv, HoldsOnlyWriting
  <2>2. {d \in Conns : writer'[d] = "stopped"} = {d \in Conns : writer[d] = "stopped"}
    BY <1>1, <1>7, <2>1 DEF StartPumps, TypeOK
  <2>3. QED
    BY <2>1, <2>2, LinkStutter
<1>8. ASSUME NEW c \in Conns,
             \/ ServeWS(c) \/ AuthFail(c) \/ Register(c) \/ ReadFail(c) \/ Depart(c)
             \/ PeerDrop(c) \/ \E a \in Accounts : AuthCheck(c, a)
      PROVE  UNCHANGED Link!linkVars
  <2>1. UNCHANGED <<sent, holding, outbox, writer>>
    BY <1>8 DEF ServeWS, AuthFail, Register, ReadFail, Depart, PeerDrop, AuthCheck
  <2>2. QED
    BY <2>1, LinkStutter
<1>9. ASSUME NEW a \in Accounts, CreateInstance(a) \/ DeleteInstance(a)
      PROVE  UNCHANGED Link!linkVars
  BY <1>9, LinkStutter DEF CreateInstance, DeleteInstance, connVars
<1>10. ASSUME NEW h \in Callers, CallerStep(h) PROVE UNCHANGED Link!linkVars
  <2>1. UNCHANGED <<sent, holding, outbox, writer>>
    BY <1>10 DEF CallerStep, RegenFind, RegenUpdate, RegenAbort, DisconnectRemove,
       DisconnectClose, connVars
  <2>2. QED
    BY <2>1, LinkStutter
<1>11. ASSUME NEW e \in Events, NEW a \in Accounts, OnEventLookup(e, a)
       PROVE  UNCHANGED Link!linkVars
  BY <1>11, LinkStutter DEF OnEventLookup, connVars
<1>12. CASE UNCHANGED vars
  BY <1>12, LinkStutter DEF vars
<1>13. QED
  BY <1>2, <1>3, <1>4, <1>5, <1>6, <1>7, <1>8, <1>9, <1>10, <1>11, <1>12
     DEF Next, ConnStep, EventStep, Link!LinkNext

\* client.go: whatever is replaced, closed or lost, each connection is written
\* an unbroken prefix of the frames it accepted, in order and once each.
THEOREM LinkCorrect == Spec => LinkSpec
<1>1. Init => Link!LinkInit
  <2> SUFFICES ASSUME Init PROVE Link!LinkInit
    OBVIOUS
  <2>1. \A c \in Conns : Line(c) = <<>>
    BY DEF Init, Line, InHand
  <2>2. QED
    BY <2>1 DEF Init, Line, InHand, Link!LinkInit
<1>2. QED
  BY <1>1, LinkStep, DeliveryInductive, PTL DEF Spec, LinkSpec, Link!LinkSpec

-----------------------------------------------------------------------------
(* The hub implements Registry.  A client that a Disconnect holds had been  *)
(* found in the map, so that its close hangs up what has gone offline.      *)

HeldRegistered ==
  \A h \in Callers : caller[h].step = "removed" => Registered(caller[h].victim)

RInv == IInv /\ HeldRegistered

Offline == {c \in Conns : Registered(c) /\ clients[acct[c]] # c}
Closed == {c \in Conns : done[c]}

\* A client in the map is registered, under its own account.
LEMMA OnlineRegistered ==
  ASSUME IInv, NEW a \in Accounts, clients[a] # None
  PROVE  clients[a] \in Conns /\ Registered(clients[a]) /\ acct[clients[a]] = a
BY SMTT(60) DEF IInv, TypeOK, HubHoldsServing, Registered

\* Nobody registers or leaves the registered ones but by Register.
LEMMA SameRegistered ==
  ASSUME IInv, [Next]_vars, \A c \in Conns : ~Register(c)
  PROVE  \A c \in Conns : /\ Registered(c)' <=> Registered(c)
                          /\ Registered(c) => acct'[c] = acct[c]
<1> USE RelayAssumption DEF IInv, TypeOK
<1>1. ASSUME NEW c \in Conns, ConnStep(c)
      PROVE  \A d \in Conns : /\ Registered(d)' <=> Registered(d)
                              /\ Registered(d) => acct'[d] = acct[d]
  <2>1. /\ \A d \in Conns \ {c} : pc'[d] = pc[d] /\ acct'[d] = acct[d]
        /\ \/ pc[c] = "idle" /\ pc'[c] = "auth" /\ acct'[c] = acct[c]
           \/ pc[c] = "auth" /\ pc'[c] = "closed" /\ acct'[c] = acct[c]
           \/ pc[c] = "auth" /\ pc'[c] = "checked" /\ acct'[c] \in Accounts
           \/ pc[c] = "registered" /\ pc'[c] = "pumping" /\ acct'[c] = acct[c]
           \/ pc[c] = "pumping" /\ pc'[c] = "leaving" /\ acct'[c] = acct[c]
           \/ pc[c] = "leaving" /\ pc'[c] = "closed" /\ acct'[c] = acct[c]
           \/ pc'[c] = pc[c] /\ acct'[c] = acct[c]
    BY <1>1 DEF ConnStep, ServeWS, AuthFail, AuthCheck, StartPumps, ReadPing, ReadFail, Depart,
                PeerDrop, TakeFrame, WriteFrame, WriterStop, connVars
  <2>2. /\ pc[c] \in {"idle", "auth"} => acct[c] = None
        /\ pc[c] = "leaving" => acct[c] \in Accounts
    BY DEF Handshake, Serving
  <2>3. /\ Registered(c)' <=> Registered(c)
        /\ Registered(c) => acct'[c] = acct[c]
    BY <2>1, <2>2, SMTT(60) DEF Registered, Serving
  <2>4. ASSUME NEW d \in Conns \ {c}
        PROVE  /\ Registered(d)' <=> Registered(d)
               /\ Registered(d) => acct'[d] = acct[d]
    BY <2>1, <2>4 DEF Registered, Serving
  <2>5. QED
    BY <2>3, <2>4
<1>2. CASE UNCHANGED <<pc, acct>>
  BY <1>2 DEF Registered, Serving
<1>3. QED
  BY <1>1, <1>2
     DEF Next, CreateInstance, DeleteInstance, CallerStep, RegenFind, RegenUpdate, RegenAbort,
         DisconnectRemove, DisconnectClose, EventStep, OnEventLookup, OnEventSend, connVars, vars

\* A Register brings its client online, in place of one that it hangs up.
LEMMA RegisterEnters ==
  ASSUME IInv, NEW c \in Conns, Register(c)
  PROVE  /\ acct[c] \in Accounts /\ Hub!Enter(acct[c], c)
         /\ \A d \in Conns \ {c} : (Registered(d)' <=> Registered(d)) /\ acct'[d] = acct[d]
<1> USE RelayAssumption DEF IInv, TypeOK
<1> DEFINE a == acct[c]
           old == clients[a]
           gone == {old} \ {None}
<1>1. /\ a \in Accounts /\ pc[c] = "checked"
      /\ UNCHANGED <<acct, caller>>
      /\ pc' = [pc EXCEPT ![c] = "registered"]
      /\ clients' = [clients EXCEPT ![a] = c]
      /\ done' = [d \in Conns |-> done[d] \/ d = old]
  BY DEF Register, Handshake
<1>2. \A d \in Conns \ {c} : (Registered(d)' <=> Registered(d)) /\ acct'[d] = acct[d]
  BY <1>1 DEF Registered, Serving
<1>3. ~Registered(c) /\ Registered(c)'
  BY <1>1 DEF Registered, Serving
<1>4. /\ c \notin Offline
      /\ \A b \in Accounts : clients[b] # c
  BY <1>3, OnlineRegistered DEF Offline
<1>5. old # None => old \in Conns /\ old # c /\ Registered(old) /\ acct[old] = a
  BY <1>1, <1>4, OnlineRegistered
<1>6. Offline' = Offline \cup gone
  <2>1. ASSUME NEW d \in Conns PROVE d \in Offline' <=> d \in Offline \cup gone
    <3>1. CASE d = c
      BY <1>1, <1>4, <1>5, <3>1 DEF Offline
    <3>2. CASE d # c /\ acct[d] = a
      BY <1>1, <1>2, <1>5, <3>2 DEF Offline
    <3>3. CASE d # c /\ acct[d] # a
      <4>1. Registered(d) => acct[d] \in Accounts
        BY DEF Registered, Handshake
      <4>2. clients'[acct[d]] = clients[acct[d]] \/ ~Registered(d)
        BY <1>1, <3>3, <4>1
      <4>3. d \notin gone
        BY <1>5, <3>3
      <4>4. QED
        BY <1>1, <1>2, <3>3, <4>2, <4>3 DEF Offline
    <3>4. QED
      BY <3>1, <3>2, <3>3
  <2>2. Offline' \subseteq Conns /\ Offline \cup gone \subseteq Conns
    BY <1>5 DEF Offline
  <2>3. QED
    BY <2>1, <2>2
<1>7. Closed' = Closed \cup gone
  <2>1. \A d \in Conns : d \in Closed' <=> d \in Closed \cup gone
    BY <1>1, <1>5 DEF Closed
  <2>2. QED
    BY <1>5, <2>1 DEF Closed
<1>8. Hub!Enter(a, c)
  <2> HIDE DEF a
  <2>1. QED
    BY <1>1, <1>4, <1>6, <1>7 DEF Hub!Enter, Offline, Closed
<1>9. QED
  BY <1>1, <1>2, <1>8

\* Who takes a client out of the map takes it offline, for good.
LEMMA Leaves ==
  ASSUME IInv, NEW a \in Accounts, clients[a] # None,
         clients' = [clients EXCEPT ![a] = None], UNCHANGED done,
         \A c \in Conns : /\ Registered(c)' <=> Registered(c)
                          /\ Registered(c) => acct'[c] = acct[c]
  PROVE  Hub!Leave(a)
<1> USE RelayAssumption DEF IInv, TypeOK
<1> DEFINE v == clients[a]
<1>1. v \in Conns /\ Registered(v) /\ acct[v] = a
  BY OnlineRegistered
<1>2. Offline' = Offline \cup {v}
  <2>1. ASSUME NEW d \in Conns PROVE d \in Offline' <=> d \in Offline \cup {v}
    <3>1. CASE ~Registered(d)
      BY <1>1, <3>1 DEF Offline
    <3>2. CASE Registered(d) /\ acct[d] = a
      BY <1>1, <3>2 DEF Offline
    <3>3. CASE Registered(d) /\ acct[d] # a
      <4>1. acct[d] \in Accounts
        BY <3>3 DEF Registered, Handshake
      <4>2. QED
        BY <1>1, <3>3, <4>1 DEF Offline
    <3>4. QED
      BY <3>1, <3>2, <3>3
  <2>2. QED
    BY <1>1, <2>1 DEF Offline
<1>3. Closed' = Closed
  BY DEF Closed
<1>4. QED
  BY <1>2, <1>3 DEF Hub!Leave, Offline, Closed

\* Nothing happens to the registry while the map and done stay as they are.
LEMMA RegistryStutter ==
  ASSUME IInv, UNCHANGED <<clients, done>>,
         \A c \in Conns : /\ Registered(c)' <=> Registered(c)
                          /\ Registered(c) => acct'[c] = acct[c]
  PROVE  UNCHANGED Hub!registryVars
<1>1. Offline' = Offline /\ Closed' = Closed
  BY DEF Offline, Closed
<1>2. QED
  BY <1>1 DEF Hub!registryVars, Offline, Closed

LEMMA HeldRegisteredStep == IInv /\ HeldRegistered /\ [Next]_vars => HeldRegistered'
<1> SUFFICES ASSUME IInv, HeldRegistered, [Next]_vars PROVE HeldRegistered'
  OBVIOUS
<1> USE RelayAssumption DEF IInv, TypeOK
<1>1. ASSUME NEW d \in Conns, Registered(d) PROVE Registered(d)'
  <2>1. CASE \E c \in Conns : Register(c)
    <3>1. PICK c \in Conns : Register(c)
      BY <2>1
    <3>2. ~Registered(c)
      BY <3>1 DEF Register, Registered, Serving
    <3>3. QED
      BY <1>1, <3>1, <3>2, RegisterEnters
  <2>2. CASE \A c \in Conns : ~Register(c)
    BY <1>1, <2>2, SameRegistered
  <2>3. QED
    BY <2>1, <2>2
<1>2. ASSUME NEW h \in Callers, NEW v \in Conns, caller'[h].step = "removed", caller'[h].victim = v
      PROVE  Registered(v)
  <2>1. CASE caller'[h] = caller[h]
    BY <1>2, <2>1 DEF HeldRegistered
  <2>2. CASE DisconnectRemove(h)
    <3> DEFINE a == caller[h].acct
    <3>1. a \in Accounts
      BY <2>2 DEF DisconnectRemove, Calls
    <3>2. caller'[h] = IF clients[a] = None
                         THEN NoCall
                         ELSE [caller[h] EXCEPT !.step = "removed", !.victim = clients[a]]
      BY <2>2 DEF DisconnectRemove
    <3>3. clients[a] # None
      BY <1>2, <3>2 DEF NoCall
    <3>4. v = clients[a]
      BY <1>2, <3>2, <3>3 DEF Calls
    <3>5. QED
      BY <3>1, <3>3, <3>4, OnlineRegistered
  <2>3. CASE RegenUpdate(h)
    BY <1>2, <2>3 DEF RegenUpdate, Calls
  <2>4. CASE RegenAbort(h) \/ DisconnectClose(h) \/ \E a \in Accounts : RegenFind(h, a)
    BY <1>2, <2>4 DEF RegenAbort, DisconnectClose, RegenFind, NoCall
  <2>5. \/ caller'[h] = caller[h] \/ DisconnectRemove(h)
        \/ RegenUpdate(h) \/ RegenAbort(h) \/ DisconnectClose(h)
        \/ \E a \in Accounts : RegenFind(h, a)
    <3>1. ASSUME NEW g \in Callers, CallerStep(g), g # h PROVE caller'[h] = caller[h]
      BY <3>1 DEF CallerStep, RegenFind, RegenUpdate, RegenAbort, DisconnectRemove,
                  DisconnectClose
    <3>2. CASE UNCHANGED caller
      BY <3>2
    <3>3. CASE \E g \in Callers : CallerStep(g)
      <4>1. PICK g \in Callers : CallerStep(g)
        BY <3>3
      <4>2. CASE g = h
        BY <4>1, <4>2 DEF CallerStep
      <4>3. QED
        BY <3>1, <4>1, <4>2
    <3>4. QED
      BY <3>2, <3>3
         DEF Next, ConnStep, EventStep, CreateInstance, DeleteInstance, ServeWS, AuthFail,
             AuthCheck, Register, StartPumps, ReadPing, ReadFail, Depart, PeerDrop, TakeFrame,
             WriteFrame, WriterStop, OnEventLookup, OnEventSend, vars
  <2>6. QED
    BY <2>1, <2>2, <2>3, <2>4, <2>5
<1>3. HeldVictim'
  BY SafeStep DEF IInv
<1>4. ASSUME NEW h \in Callers, caller'[h].step = "removed"
      PROVE  Registered(caller[h].victim)'
  <2>1. PICK v \in Conns : v = caller'[h].victim
    BY <1>3, <1>4 DEF HeldVictim
  <2>2. Registered(v)'
    BY <1>1, <1>2, <1>4, <2>1
  <2>3. QED
    BY <2>1, <2>2 DEF Registered, Serving
<1>5. QED
  BY <1>4 DEF HeldRegistered

\* Every step of the relay is one of the registry, or none at all.
LEMMA RegistryStep == RInv /\ [Next]_vars => [Hub!RegistryNext]_(Hub!registryVars)
<1> SUFFICES ASSUME RInv, [Next]_vars PROVE [Hub!RegistryNext]_(Hub!registryVars)
  OBVIOUS
<1> USE RelayAssumption DEF RInv, IInv, TypeOK
<1>1. CASE \E c \in Conns : Register(c)
  BY <1>1, RegisterEnters, SMTT(60) DEF Hub!RegistryNext
<1>2. CASE \A c \in Conns : ~Register(c)
  <2>1. \A c \in Conns : /\ Registered(c)' <=> Registered(c)
                         /\ Registered(c) => acct'[c] = acct[c]
    BY <1>2, SameRegistered
  <2>2. ASSUME NEW a \in Accounts, clients' = [clients EXCEPT ![a] = None], UNCHANGED done
        PROVE  [Hub!RegistryNext]_(Hub!registryVars)
    <3>1. CASE clients[a] = None
      <4>1. clients' = clients
        BY <2>2, <3>1
      <4>2. QED
        BY <2>1, <2>2, <4>1, RegistryStutter
    <3>2. CASE clients[a] # None
      BY <2>1, <2>2, <3>2, Leaves DEF Hub!RegistryNext
    <3>3. QED
      BY <3>1, <3>2
  <2>3. ASSUME NEW c \in Conns, Depart(c) PROVE [Hub!RegistryNext]_(Hub!registryVars)
    BY <2>2, <2>3 DEF Depart, Handshake, Serving
  <2>4. ASSUME NEW h \in Callers, DisconnectRemove(h)
        PROVE  [Hub!RegistryNext]_(Hub!registryVars)
    BY <2>2, <2>4 DEF DisconnectRemove, Calls
  <2>5. ASSUME NEW h \in Callers, DisconnectClose(h)
        PROVE  [Hub!RegistryNext]_(Hub!registryVars)
    <3>1. PICK c \in Conns : c = caller[h].victim
      BY <2>5 DEF DisconnectClose, HeldVictim
    <3>2. /\ UNCHANGED <<clients, pc, acct>>
          /\ done' = [done EXCEPT ![c] = TRUE]
      BY <2>5, <3>1 DEF DisconnectClose, connVars
    <3>3. /\ Registered(caller[h].victim) /\ ~done[c]
          /\ \A a \in Accounts : clients[a] # c
      BY <2>5, <3>1 DEF DisconnectClose, HeldRegistered, ClosedOnce
    <3>4. c \in Offline \ Closed
      BY <3>1, <3>3 DEF Offline, Closed, Registered, Serving, Handshake
    <3>5. Offline' = Offline /\ Closed' = Closed \cup {c}
      BY <3>2 DEF Offline, Closed, Registered, Serving
    <3>6. Hub!HangUp(c)
      BY <3>2, <3>4, <3>5 DEF Hub!HangUp, Offline, Closed
    <3>7. QED
      BY <3>6 DEF Hub!RegistryNext
  <2>6. CASE UNCHANGED <<clients, done>>
    BY <2>1, <2>6, RegistryStutter
  <2>7. QED
    BY <1>2, <2>3, <2>4, <2>5, <2>6
       DEF Next, ConnStep, CallerStep, EventStep, CreateInstance, DeleteInstance, ServeWS,
           AuthFail, AuthCheck, StartPumps, ReadPing, ReadFail, PeerDrop, TakeFrame, WriteFrame,
           WriterStop, RegenFind, RegenUpdate, RegenAbort, OnEventLookup, OnEventSend, connVars,
           vars
<1>3. QED
  BY <1>1, <1>2

\* hub.go: the map, the departures and the closes together are a registry,
\* which a connection enters once and leaves for good, and which hangs up
\* nothing that can still be found.
THEOREM RegistryCorrect == Spec => RegistrySpec
<1>1. Init => Hub!RegistryInit
  BY DEF Init, Hub!RegistryInit, Registered, Serving
<1>2. Init => HeldRegistered
  BY DEF Init, HeldRegistered, NoCall
<1>3. QED
  BY <1>1, <1>2, HeldRegisteredStep, RegistryStep, Inductive, PTL
     DEF RInv, Spec, RegistrySpec, Hub!RegistrySpec

-----------------------------------------------------------------------------
(* What the link promises, told of the relay: since a frame joins no line  *)
(* it has ever been in, none is written twice.                             *)

\* No frame stands twice, in one line or in two.
Single ==
  \A c, d \in Conns : \A i \in DOMAIN Line(c), j \in DOMAIN Line(d) :
    Line(c)[i] = Line(d)[j] => c = d /\ i = j

WrittenOnce ==
  \A c, d \in Conns : \A i \in DOMAIN sent[c], j \in DOMAIN sent[d] :
    sent[c][i] = sent[d][j] => c = d /\ i = j

LEMMA LineOf == TypeOK => \A c \in Conns : Line(c) \in Seq(Frames)
<1> SUFFICES ASSUME TypeOK, NEW c \in Conns PROVE Line(c) \in Seq(Frames)
  OBVIOUS
<1>1. sent[c] \in Seq(Frames) /\ outbox[c] \in Seq(Frames) /\ InHand(c) \in Seq(Frames)
  BY DEF TypeOK, InHand
<1>2. QED
  BY <1>1 DEF Line

LEMMA SingleStep ==
  ASSUME TypeOK, Single, [Link!LinkNext]_(Link!linkVars)
  PROVE  Single'
<1>1. CASE \A c \in Conns : Line(c)' = Line(c)
  BY <1>1 DEF Single
<1>2. ASSUME NEW c \in Conns, NEW f \in Frames, Link!Accept(c, f)
      PROVE  Single'
  <2>1. \A d \in Conns : \A i \in DOMAIN Line(d) : Line(d)[i] # f
    BY <1>2 DEF Link!Accept, Line, InHand
  <2>2. /\ Line(c)' = Append(Line(c), f)
        /\ \A d \in Conns \ {c} : Line(d)' = Line(d)
    BY <1>2 DEF Link!Accept, Line, InHand
  <2>3. /\ DOMAIN Line(c)' = DOMAIN Line(c) \cup {Len(Line(c)) + 1}
        /\ Line(c)'[Len(Line(c)) + 1] = f
        /\ \A i \in DOMAIN Line(c) : Line(c)'[i] = Line(c)[i]
        /\ Len(Line(c)) + 1 \notin DOMAIN Line(c)
    <3>1. Line(c) \in Seq(Frames)
      BY LineOf
    <3>2. QED
      BY <2>2, <3>1
  <2>4. SUFFICES ASSUME NEW d \in Conns, NEW e \in Conns,
                        NEW i \in DOMAIN Line(d)', NEW j \in DOMAIN Line(e)',
                        Line(d)'[i] = Line(e)'[j]
                 PROVE  d = e /\ i = j
    BY DEF Single
  <2>5. CASE i \in DOMAIN Line(d) /\ j \in DOMAIN Line(e)
    BY <2>2, <2>3, <2>4, <2>5 DEF Single
  <2>6. CASE i \notin DOMAIN Line(d)
    BY <2>1, <2>2, <2>3, <2>4, <2>6
  <2>7. CASE j \notin DOMAIN Line(e)
    BY <2>1, <2>2, <2>3, <2>4, <2>7, SMTT(60)
  <2>8. QED
    BY <2>5, <2>6, <2>7
<1>3. ASSUME NEW c \in Conns, Link!Hand(c) \/ Link!Cut(c)
      PROVE  Single'
  BY <1>1, <1>3, ZenonT(60) DEF Link!Hand, Link!Cut, Line, InHand
<1>4. CASE UNCHANGED Link!linkVars
  BY <1>1, <1>4 DEF Link!linkVars, Line, InHand
<1>5. QED
  BY <1>2, <1>3, <1>4 DEF Link!LinkNext

LEMMA PrefixOf ==
  ASSUME NEW s \in Seq(Frames), NEW o \in Seq(Frames), NEW i \in DOMAIN s
  PROVE  i \in DOMAIN (s \o o) /\ (s \o o)[i] = s[i]
OBVIOUS

\* client.go: however connections of one account replace each other, and
\* though the outbox of one that has left is never emptied, a frame is written
\* at most once, to one connection.
THEOREM OnceCorrect == Spec => []WrittenOnce
<1>1. Init => Single
  <2> SUFFICES ASSUME Init PROVE \A c \in Conns : Line(c) = <<>>
    BY DEF Single
  <2>1. QED
    BY DEF Init, Line, InHand
<1>2. DInv /\ Single /\ [Next]_vars => Single'
  BY LinkStep, SingleStep DEF DInv, IInv
<1>3. DInv /\ Single => WrittenOnce
  <2> SUFFICES ASSUME DInv, Single,
                      NEW c \in Conns, NEW d \in Conns,
                      NEW i \in DOMAIN sent[c], NEW j \in DOMAIN sent[d],
                      sent[c][i] = sent[d][j]
               PROVE  c = d /\ i = j
    BY DEF WrittenOnce
  <2>1. ASSUME NEW b \in Conns, NEW k \in DOMAIN sent[b]
        PROVE  k \in DOMAIN Line(b) /\ Line(b)[k] = sent[b][k]
    <3>1. sent[b] \in Seq(Frames) /\ outbox[b] \in Seq(Frames) /\ InHand(b) \in Seq(Frames)
      BY DEF DInv, IInv, TypeOK, InHand
    <3>2. /\ k \in DOMAIN (sent[b] \o InHand(b))
          /\ (sent[b] \o InHand(b))[k] = sent[b][k]
      BY <3>1, PrefixOf
    <3>3. sent[b] \o InHand(b) \in Seq(Frames)
      BY <3>1
    <3>4. /\ k \in DOMAIN ((sent[b] \o InHand(b)) \o outbox[b])
          /\ ((sent[b] \o InHand(b)) \o outbox[b])[k] = (sent[b] \o InHand(b))[k]
      <4> DEFINE s == sent[b] \o InHand(b)
      <4>1. s \in Seq(Frames) /\ k \in DOMAIN s
        BY <3>2, <3>3
      <4> HIDE DEF s
      <4>2. k \in DOMAIN (s \o outbox[b]) /\ (s \o outbox[b])[k] = s[k]
        BY <3>1, <4>1, PrefixOf
      <4>3. QED
        BY <4>2 DEF s
    <3>5. Line(b) = (sent[b] \o InHand(b)) \o outbox[b]
      BY DEF Line
    <3>6. QED
      BY <3>2, <3>4, <3>5
  <2>2. QED
    BY <2>1 DEF Single
<1>4. QED
  BY <1>1, <1>2, <1>3, DeliveryInductive, PTL DEF Spec

-----------------------------------------------------------------------------
(* The half of SignalledLeaves that needs no fairness: a connection told to *)
(* close, or whose peer is gone, always has a step that Fairness promises,  *)
(* and no step takes it further from its end.                               *)

Signalled(c) == done[c] \/ sock[c] = "broken"

\* The guard of a step in Fairness holds.
CanGoOn(c) ==
  \/ pc[c] \in {"auth", "checked", "registered", "leaving"}
  \/ pc[c] = "pumping" /\ (sock[c] = "broken" \/ writer[c] = "stopped")
  \/ writer[c] = "on" /\ (done[c] \/ sock[c] # "open")
  \/ writer[c] = "writing" /\ sock[c] # "closed"

NoneStranded == \A c \in Conns : Signalled(c) /\ pc[c] # "closed" => CanGoOn(c)

Ahead == [idle |-> 6, auth |-> 5, checked |-> 4, registered |-> 3,
          pumping |-> 2, leaving |-> 1, closed |-> 0]

NoTurningBack ==
  [][\A c \in Conns : Signalled(c) =>
       /\ Ahead[pc'[c]] <= Ahead[pc[c]]
       /\ Signalled(c)' \/ pc'[c] = "closed"]_vars

\* A socket is open from the upgrade to the end of Run, and the writer starts
\* with the pumps.
Piped ==
  \A c \in Conns :
    /\ pc[c] \in {"idle", "closed"} <=> sock[c] = "closed"
    /\ pc[c] = "pumping" => writer[c] # "off"

LEMMA PipedStep == TypeOK /\ Piped /\ [Next]_vars => Piped'
<1> SUFFICES ASSUME TypeOK, Piped, [Next]_vars PROVE Piped'
  OBVIOUS
<1>1. CASE UNCHANGED <<pc, sock, writer>>
  BY <1>1 DEF Piped
<1>2. ASSUME NEW c \in Conns, ConnStep(c) PROVE Piped'
  BY <1>2 DEF ConnStep, ServeWS, AuthFail, AuthCheck, Register, StartPumps, ReadPing,
              ReadFail, Depart, PeerDrop, TakeFrame, WriteFrame, WriterStop, connVars,
              TypeOK, Piped
<1>3. ASSUME NEW h \in Callers, CallerStep(h) PROVE UNCHANGED <<pc, sock, writer>>
  BY <1>3 DEF CallerStep, RegenFind, RegenUpdate, RegenAbort, DisconnectRemove,
              DisconnectClose, connVars
<1>4. ASSUME NEW e \in Events, EventStep(e) PROVE UNCHANGED <<pc, sock, writer>>
  BY <1>4 DEF EventStep, OnEventLookup, OnEventSend, connVars
<1>5. ASSUME NEW a \in Accounts, CreateInstance(a) \/ DeleteInstance(a)
      PROVE  UNCHANGED <<pc, sock, writer>>
  BY <1>5 DEF CreateInstance, DeleteInstance, connVars
<1>6. QED
  BY <1>1, <1>2, <1>3, <1>4, <1>5 DEF Next, vars

\* client.go: close() leaves the socket alone, yet no connection it was called
\* for waits for anybody but its own goroutines and deadlines.
THEOREM NotStranded == Spec => []NoneStranded
<1>1. Init => Piped
  BY DEF Init, Piped
<1>2. IInv /\ Piped => NoneStranded
  <2> SUFFICES ASSUME IInv, Piped, NEW c \in Conns, Signalled(c), pc[c] # "closed"
               PROVE  CanGoOn(c)
    BY DEF NoneStranded
  <2>1. pc[c] # "idle"
    BY DEF IInv, Handshake, Piped, Signalled
  <2>2. CASE pc[c] = "pumping"
    BY <2>2 DEF IInv, TypeOK, Piped, Signalled, CanGoOn
  <2>3. QED
    BY <2>1, <2>2 DEF IInv, TypeOK, Stages, CanGoOn
<1>3. IInv => TypeOK
  BY DEF IInv
<1>4. QED
  BY <1>1, <1>2, <1>3, PipedStep, Inductive, PTL DEF Spec

\* client.go: a connection told to close is told for good, and goes on to its
\* end stage by stage.
THEOREM OnlyForward == Spec => NoTurningBack
<1>1. ASSUME IInv, Piped, [Next]_vars, NEW c \in Conns, Signalled(c)
      PROVE  Ahead[pc'[c]] <= Ahead[pc[c]] /\ (Signalled(c)' \/ pc'[c] = "closed")
  <2>1. CASE UNCHANGED <<pc, sock>> /\ \A d \in Conns : done[d] => done'[d]
    BY <1>1, <2>1 DEF Signalled, IInv, TypeOK, Stages, Ahead
  <2>2. ASSUME NEW d \in Conns, ConnStep(d)
        PROVE  Ahead[pc'[c]] <= Ahead[pc[c]] /\ (Signalled(c)' \/ pc'[c] = "closed")
    BY <1>1, <2>2, SMTT(60) DEF ConnStep, ServeWS, AuthFail, AuthCheck, Register, StartPumps,
       ReadPing,
              ReadFail, Depart, PeerDrop, TakeFrame, WriteFrame, WriterStop, connVars,
              IInv, TypeOK, Stages, Piped, Handshake, Signalled, Ahead
  <2>3. ASSUME NEW h \in Callers, CallerStep(h)
        PROVE  UNCHANGED <<pc, sock>> /\ \A d \in Conns : done[d] => done'[d]
    BY <1>1, <2>3 DEF CallerStep, RegenFind, RegenUpdate, RegenAbort, DisconnectRemove,
              DisconnectClose, connVars, IInv, TypeOK
  <2>4. ASSUME NEW e \in Events, EventStep(e)
        PROVE  UNCHANGED <<pc, sock, done>>
    BY <2>4 DEF EventStep, OnEventLookup, OnEventSend, connVars
  <2>5. ASSUME NEW a \in Accounts, CreateInstance(a) \/ DeleteInstance(a)
        PROVE  UNCHANGED <<pc, sock, done>>
    BY <2>5 DEF CreateInstance, DeleteInstance, connVars
  <2>6. QED
    BY <1>1, <2>1, <2>2, <2>3, <2>4, <2>5 DEF Next, vars
<1>2. Init => Piped
  BY DEF Init, Piped
<1>3. IInv /\ Piped /\ [Next]_vars =>
        [\A c \in Conns : Signalled(c) =>
           /\ Ahead[pc'[c]] <= Ahead[pc[c]]
           /\ Signalled(c)' \/ pc'[c] = "closed"]_vars
  BY <1>1
<1>4. IInv => TypeOK
  BY DEF IInv
<1>5. QED
  BY <1>2, <1>3, <1>4, PipedStep, Inductive, PTL DEF Spec, NoTurningBack

-----------------------------------------------------------------------------
(* Taking a secret back: what OutdatedOnlyByLateRegister leaves open ends  *)
(* when the registrations under way do.                                    *)

\* s was handed out, no instance has it, and no connection that proved
\* knowledge of it is in the hub or on its way there.
Spent(s) ==
  /\ s \in 1..issued
  /\ \A a \in Accounts : row[a].secret # s
  /\ \A c \in Conns : key[c] = s => pc[c] # "checked"
  /\ \A a \in Accounts : clients[a] # None => key[clients[a]] # s

LEMMA SpentStep ==
  ASSUME TypeOK, [Next]_vars, NEW s, Spent(s),
         ~\E a \in Accounts : CreateInstance(a) /\ row'[a].secret = s
  PROVE  Spent(s)'
<1> USE DEF TypeOK, Spent
<1>0. ASSUME UNCHANGED <<clients, pc, key>>, issued' \in {issued, issued + 1},
             \A a \in Accounts : row'[a].secret \in {0, row[a].secret, issued + 1}
      PROVE  Spent(s)'
  <2>1. issued \in Nat /\ s \in 1..issued
    OBVIOUS
  <2>2. s \in 1..issued' /\ s # 0 /\ s # issued + 1
    BY <1>0, <2>1
  <2>3. \A a \in Accounts : row'[a].secret # s
    BY <1>0, <2>2
  <2>4. QED
    BY <1>0, <2>2, <2>3
<1>1. CASE UNCHANGED <<row, issued, clients, pc, key>>
  BY <1>1
<1>2. ASSUME NEW c \in Conns, ConnStep(c) PROVE Spent(s)'
  <2>1. CASE \E a \in Accounts : AuthCheck(c, a)
    <3>1. PICK a \in Accounts : AuthCheck(c, a)
      BY <2>1
    <3>2. UNCHANGED <<row, issued, clients>> /\ key' = [key EXCEPT ![c] = row[a].secret]
      BY <3>1 DEF AuthCheck, dbVars
    <3>3. \A d \in Conns : d # c => pc'[d] = pc[d]
      BY <3>1 DEF AuthCheck
    <3>4. QED
      BY <3>2, <3>3
  <2>2. CASE Register(c)
    BY <2>2, RelayAssumption DEF Register, dbVars
  <2>3. CASE Depart(c)
    BY <2>3 DEF Depart, dbVars
  <2>4. CASE ServeWS(c) \/ AuthFail(c) \/ StartPumps(c) \/ ReadFail(c)
    BY <2>4 DEF ServeWS, AuthFail, StartPumps, ReadFail, dbVars, connVars
  <2>5. CASE (\E p \in Pongs : ReadPing(c, p)) \/ PeerDrop(c)
             \/ TakeFrame(c) \/ WriteFrame(c) \/ WriterStop(c)
    BY <1>1, <2>5 DEF ReadPing, PeerDrop, TakeFrame, WriteFrame, WriterStop, dbVars, connVars
  <2>6. QED
    BY <1>2, <2>1, <2>2, <2>3, <2>4, <2>5 DEF ConnStep
<1>3. ASSUME NEW h \in Callers, CallerStep(h) PROVE Spent(s)'
  <2>1. CASE RegenUpdate(h)
    <3>1. UNCHANGED <<clients, pc, key>> /\ issued' \in {issued, issued + 1}
      BY <2>1 DEF RegenUpdate, dbVars, connVars
    <3>2. row' = row \/ row' = [row EXCEPT ![caller[h].acct].secret = issued + 1]
      BY <2>1 DEF RegenUpdate, dbVars
    <3>3. \A a \in Accounts : row'[a].secret \in {row[a].secret, issued + 1}
      <4> SUFFICES ASSUME NEW a \in Accounts,
                          row' = [row EXCEPT ![caller[h].acct].secret = issued + 1]
                   PROVE  row'[a].secret \in {row[a].secret, issued + 1}
        BY <3>2
      <4>1. row[a] \in Rows
        OBVIOUS
      <4>2. row'[a] = IF a = caller[h].acct THEN [row[a] EXCEPT !.secret = issued + 1] ELSE row[a]
        OBVIOUS
      <4>3. QED
        BY <4>1, <4>2 DEF Rows
    <3>4. QED
      BY <1>0, <3>1, <3>3
  <2>2. CASE DisconnectRemove(h)
    BY <2>2 DEF DisconnectRemove, dbVars, connVars
  <2>3. CASE (\E a \in Accounts : RegenFind(h, a)) \/ RegenAbort(h) \/ DisconnectClose(h)
    BY <1>1, <2>3 DEF RegenFind, RegenAbort, DisconnectClose, dbVars, connVars
  <2>4. QED
    BY <1>3, <2>1, <2>2, <2>3 DEF CallerStep
<1>4. ASSUME NEW e \in Events, EventStep(e) PROVE Spent(s)'
  BY <1>1, <1>4 DEF EventStep, OnEventLookup, OnEventSend, dbVars, connVars
<1>5. ASSUME NEW a \in Accounts, CreateInstance(a) \/ DeleteInstance(a) PROVE Spent(s)'
  <2>1. UNCHANGED <<clients, pc, key>> /\ issued' \in {issued, issued + 1}
    BY <1>5 DEF CreateInstance, DeleteInstance, connVars
  <2>2. \A b \in Accounts : row'[b].secret # s
    <3>1. CASE DeleteInstance(a)
      BY <3>1 DEF DeleteInstance, NoRow
    <3>2. CASE CreateInstance(a)
      <4>1. row'[a].secret # s /\ \A b \in Accounts \ {a} : row'[b] = row[b]
        BY <3>2 DEF CreateInstance
      <4>2. QED
        BY <4>1
    <3>3. QED
      BY <1>5, <3>1, <3>2
  <2>3. s \in 1..issued'
    BY <2>1
  <2>4. QED
    BY <2>1, <2>2, <2>3
<1>6. QED
  BY <1>1, <1>2, <1>3, <1>4, <1>5 DEF Next, vars

\* relay.go, hub.go and client.go: once no client has it and none is being
\* registered with it, a secret that was regenerated, or whose instance was
\* deleted, comes back only by a CreateInstance whose caller chose it: no
\* other step, however connections and RegenerateSecret interleave, makes it
\* the secret of an instance or of a client in the hub again.
THEOREM SpentForGood ==
  ASSUME NEW s \in Nat
  PROVE  Spec => [][Spent(s) /\ ~Spent(s)' =>
                      \E a \in Accounts : CreateInstance(a) /\ row'[a].secret = s]_vars
<1>1. TypeOK /\ [Next]_vars =>
        [Spent(s) /\ ~Spent(s)' =>
           \E a \in Accounts : CreateInstance(a) /\ row'[a].secret = s]_vars
  BY SpentStep
<1>2. QED
  BY <1>1, TypeCorrect, PTL DEF Spec

=============================================================================
