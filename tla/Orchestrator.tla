---------------------------- MODULE Orchestrator ----------------------------
(***************************************************************************)
(* The life cycle of MCP servers in one host process:                      *)
(* orchestrator/service.ts (start, stop, stopAll, listTools, the status    *)
(* rows), orchestrator/runner.ts (the processes that do not speak MCP) and *)
(* orchestrator/client.ts (connect and close).  Requests interleave at     *)
(* their awaits.  A link is one connection of connectMcpServer or one      *)
(* child of the runner.  A start names how each server is reached: a       *)
(* client, a client behind the docker network, or the runner; a stored     *)
(* configuration can be edited between two starts, so any name may be      *)
(* reached in any way.                                                     *)
(***************************************************************************)
EXTENDS Integers, FiniteSets

CONSTANTS
    Servers,        \* configured names
    Requests,       \* requests served at the same time
    Host,           \* the author of a status write no request waits for
    MaxLinks,       \* bound: connections and children ever made
    MaxRequests     \* bound: requests ever made

ASSUME ServersAssumption == Servers # {} /\ IsFiniteSet(Servers)
ASSUME RequestsAssumption == Host \notin Requests
ASSUME BoundsAssumption == MaxLinks \in Nat /\ MaxRequests \in Nat

Links == 1..MaxLinks
None == 0
AnyServer == CHOOSE n \in Servers : TRUE

Statuses == {"unknown", "pending", "running", "failed", "stopped"}

VARIABLES
    link,       \* every link: its server, who holds it, its life, the runner's note of it
    clients,    \* OrchestratorService.clients: the connection of each name
    cache,      \* toolCache: the connection whose tools are cached for a name
    procs,      \* Runner.processes: the child of each name
    network,    \* ensureNetworkPromise
    status,     \* app.mcp_server_status
    writes,     \* status updates sent to the database and not yet applied
    req,        \* the requests being served
    doomed,     \* the children each request has sent SIGTERM and is polling
    forced,     \* the children each request has sent SIGKILL
    asked,      \* requests made so far
    \* History, for the properties only.
    raced,      \* names opened again while an older start or stop of them was unfinished
    smudged     \* names with two status updates under way at once, or with one lost

maps == <<clients, cache, procs>>
rows == <<status, writes, smudged>>
kills == <<doomed, forced>>
hostVars == <<link, clients, cache, procs, network, status, writes, req, doomed,
          forced, asked, raced, smudged>>

Link == [server : Servers, via : {"client", "runner"},
         life : {"unborn", "opening", "up", "closing", "killed", "down"},
         noted : {"starting", "running", "exited", "failed"}]

Request == [op : {"none", "start", "stop", "stopAll", "list"}, dry : BOOLEAN,
            todo : SUBSET Servers, name : Servers, link : Links \cup {None},
            at : {"next", "judge", "network", "connect", "closing", "closed",
                  "killing", "list"}]

Write == [server : Servers, status : Statuses, by : Requests \cup {Host}]

Idle == [op |-> "none", dry |-> FALSE, todo |-> {}, name |-> AnyServer,
         at |-> "next", link |-> None]

HostInit ==
    /\ link = [l \in Links |-> [server |-> AnyServer, via |-> "client",
                                life |-> "unborn", noted |-> "starting"]]
    /\ clients = [n \in Servers |-> None]
    /\ cache = [n \in Servers |-> None]
    /\ procs = [n \in Servers |-> None]
    /\ network = "unchecked"
    /\ status = [n \in Servers |-> "unknown"]
    /\ writes = {}
    /\ req = [h \in Requests |-> Idle]
    /\ doomed = [h \in Requests |-> {}]
    /\ forced = [h \in Requests |-> {}]
    /\ asked = 0
    /\ raced = {}
    /\ smudged = {}

-----------------------------------------------------------------------------
(* Links. *)

Born(l) == link[l].life # "unborn"
Alive(l) == link[l].life \in {"opening", "up", "closing"}
Gone(l) == link[l].life = "down"
Fresh(l) == ~Born(l) /\ \A k \in 1..(l - 1) : Born(k)

\* A new link to server n.
Open(l, n, via) ==
    link' = [link EXCEPT ![l] = [server |-> n, via |-> via, life |-> "opening",
                                 noted |-> "starting"]]

-----------------------------------------------------------------------------
(* Status rows. *)

\* recordStatus: the update is sent; by waits for it.
Record(n, st, by) ==
    /\ writes' = writes \cup {[server |-> n, status |-> st, by |-> by]}
    /\ smudged' = IF \E w \in writes : w.server = n THEN smudged \cup {n} ELSE smudged
    /\ UNCHANGED status

\* The update a start makes, unless it is a dry run.
Tell(h, st) ==
    IF req[h].dry THEN UNCHANGED rows ELSE Record(req[h].name, st, h)

Written(h) == \A w \in writes : w.by # h

\* updateServerStatus applies the update.
Lands(w) ==
    /\ writes' = writes \ {w}
    /\ status' = [status EXCEPT ![w.server] = w.status]
    /\ UNCHANGED <<link, maps, network, req, kills, asked, raced, smudged>>

\* The update fails: recordStatus only logs it.
IsLost(w) ==
    /\ writes' = writes \ {w}
    /\ smudged' = smudged \cup {w.server}
    /\ UNCHANGED <<link, maps, network, status, req, kills, asked, raced>>

-----------------------------------------------------------------------------
(* Requests. *)

Goes(h, at, l) == req' = [req EXCEPT ![h].at = at, ![h].link = l]

Arrives(h) ==
    /\ req[h].op = "none"
    /\ asked < MaxRequests
    /\ asked' = asked + 1

\* start of a valid payload, dry or not.
StartRequest(h) ==
    /\ Arrives(h)
    /\ \E todo \in (SUBSET Servers) \ {{}}, dry \in BOOLEAN :
          req' = [req EXCEPT ![h] = [Idle EXCEPT !.op = "start", !.todo = todo, !.dry = dry]]
    /\ UNCHANGED <<link, maps, network, rows, kills, raced>>

\* The loop of start takes its next server and marks it pending.
TakesServer(h) ==
    /\ req[h].op = "start" /\ req[h].at = "next" /\ Written(h)
    /\ \E n \in req[h].todo :
          /\ req' = [req EXCEPT ![h].todo = @ \ {n}, ![h].name = n, ![h].at = "judge"]
          /\ IF req[h].dry THEN UNCHANGED rows ELSE Record(n, "pending", h)
    /\ UNCHANGED <<link, maps, network, kills, asked, raced>>

Judging(h) == req[h].op = "start" /\ req[h].at = "judge" /\ Written(h)

\* A secret of the configuration is not set.
MissesSecrets(h) ==
    /\ Judging(h)
    /\ Tell(h, "failed")
    /\ Goes(h, "next", None)
    /\ UNCHANGED <<link, maps, network, kills, asked, raced>>

\* No docker host, or one that is not rootless: the row stays pending.
IsRefused(h) ==
    /\ Judging(h)
    /\ Goes(h, "next", None)
    /\ UNCHANGED <<link, maps, network, rows, kills, asked, raced>>

\* docker run: ensureDockerNetwork, whose promise is made once and kept.
AsksNetwork(h) ==
    /\ Judging(h)
    /\ Goes(h, "network", None)
    /\ network' = IF network = "unchecked" THEN "checking" ELSE network
    /\ UNCHANGED <<link, maps, rows, kills, asked, raced>>

NetworkAnswers ==
    /\ network = "checking"
    /\ network' \in {"ready", "rejected"}
    /\ UNCHANGED <<link, maps, rows, req, kills, asked, raced>>

NetworkMissing(h) ==
    /\ req[h].at = "network" /\ network = "rejected"
    /\ Goes(h, "next", None)
    /\ UNCHANGED <<link, maps, network, rows, kills, asked, raced>>

-----------------------------------------------------------------------------
(* Clients. *)

\* The start has come to the connection of its server.
Connecting(h) ==
    \/ Judging(h)
    \/ req[h].at = "network" /\ network = "ready"

HasClientUnasked(n) == FALSE    \* Mutant: a running server is connected again.
HasClient(n) == clients[n] # None

\* Another request is opening or closing a connection of n.
Contested(h, n) ==
    \E o \in Requests \ {h} : req[o].name = n /\ req[o].at \in {"connect", "closing", "closed"}

\* clients.has(name): nothing more is done, the row stays pending.
AlreadyConnected(h) ==
    /\ Connecting(h) /\ HasClient(req[h].name)
    /\ Goes(h, "next", None)
    /\ UNCHANGED <<link, maps, network, rows, kills, asked, raced>>

\* connectMcpServer; the map is written only when it has answered.
Connects(h) ==
    /\ Connecting(h) /\ ~HasClient(req[h].name)
    /\ \E l \in Links :
          /\ Fresh(l)
          /\ Open(l, req[h].name, "client")
          /\ Goes(h, "connect", l)
    /\ raced' = IF Contested(h, req[h].name) THEN raced \cup {req[h].name} ELSE raced
    /\ UNCHANGED <<maps, network, rows, kills, asked>>

\* connectMcpServer throws before it has made anything.
CannotConnect(h) ==
    /\ Connecting(h) /\ ~HasClient(req[h].name)
    /\ Tell(h, "failed")
    /\ Goes(h, "next", None)
    /\ UNCHANGED <<link, maps, network, kills, asked, raced>>

\* toolCache.delete.
Remembered(n) == cache    \* Mutant: the cache outlives the connection it was filled from.
Forgotten(n) == [cache EXCEPT ![n] = None]

Connected(h) ==
    /\ req[h].at = "connect"
    /\ link' = [link EXCEPT ![req[h].link].life = "up"]
    /\ clients' = [clients EXCEPT ![req[h].name] = req[h].link]
    /\ cache' = Forgotten(req[h].name)
    /\ Tell(h, "running")
    /\ Goes(h, "next", None)
    /\ UNCHANGED <<procs, network, kills, asked, raced>>

\* The server dies during the handshake, or the timeout ends it.
ConnectFails(h) ==
    /\ req[h].at = "connect"
    /\ link' = [link EXCEPT ![req[h].link].life = "down"]
    /\ Tell(h, "failed")
    /\ Goes(h, "next", None)
    /\ UNCHANGED <<maps, network, kills, asked, raced>>

\* A connected server goes down by itself: nothing watches it.
ServerDies(l) ==
    /\ link[l].via = "client" /\ link[l].life = "up"
    /\ link' = [link EXCEPT ![l].life = "down"]
    /\ UNCHANGED <<maps, network, rows, req, kills, asked, raced>>

\* The process of a client that is being closed is gone.
Closes(l) ==
    /\ link[l].life = "closing"
    /\ link' = [link EXCEPT ![l].life = "down"]
    /\ UNCHANGED <<maps, network, rows, req, kills, asked, raced>>

\* The row of a client that has been stopped.
StopUnrecorded(h) == UNCHANGED rows    \* Mutant: the row is left as it was.
StopRecorded(h) == Record(req[h].name, "stopped", h)

\* client.stop() of the first caller ends with the process, of a later caller at once.
\* What is mapped now is removed, whichever connection it is.
Closed(h) ==
    /\ \/ req[h].at = "closing" /\ link[req[h].link].life = "down"
       \/ req[h].at = "closed"
    /\ clients' = [clients EXCEPT ![req[h].name] = None]
    /\ cache' = Forgotten(req[h].name)
    /\ StopRecorded(h)
    /\ Goes(h, "next", None)
    /\ UNCHANGED <<link, procs, network, kills, asked, raced>>

-----------------------------------------------------------------------------
(* The runner. *)

HasProcess(n) == procs[n] # None /\ link[procs[n]].noted \in {"starting", "running"}

\* Runner.start of a name whose entry is starting or running.
AlreadyRunning(h) ==
    /\ Judging(h) /\ HasProcess(req[h].name)
    /\ Tell(h, "running")
    /\ Goes(h, "next", None)
    /\ UNCHANGED <<link, maps, network, kills, asked, raced>>

\* A child of n is still there, or a stop of n has not come to its end.
Unfinished(n) ==
    \/ \E l \in Links : link[l].via = "runner" /\ link[l].server = n /\ Born(l) /\ ~Gone(l)
    \/ \E h \in Requests : \E l \in doomed[h] \cup forced[h] : link[l].server = n

\* Runner.start: the entry is written before the process is known to run.
Spawns(h) ==
    /\ Judging(h) /\ ~HasProcess(req[h].name)
    /\ \E l \in Links :
          /\ Fresh(l)
          /\ Open(l, req[h].name, "runner")
          /\ procs' = [procs EXCEPT ![req[h].name] = l]
    /\ raced' = IF Unfinished(req[h].name) THEN raced \cup {req[h].name} ELSE raced
    /\ Goes(h, "next", None)
    /\ UNCHANGED <<clients, cache, network, rows, kills, asked>>

\* The 'spawn' event.
Spawned(l) ==
    /\ link[l].via = "runner" /\ link[l].life = "opening"
    /\ link' = [link EXCEPT ![l].life = "up", ![l].noted = "running"]
    /\ Record(link[l].server, "running", Host)
    /\ UNCHANGED <<maps, network, req, kills, asked, raced>>

\* The status row after the end of a child.
Exit(noted) == IF noted = "exited" THEN "stopped" ELSE "failed"

\* The 'exit' event, or 'error' of a child that could not be spawned: the entry of the
\* name becomes this child's, whatever it was.
ChildEnds(l) ==
    /\ link[l].via = "runner"
    /\ \E noted \in {"exited", "failed"} :
          /\ link[l].life \in {"up", "killed"} \/ (link[l].life = "opening" /\ noted = "failed")
          /\ link' = [link EXCEPT ![l].life = "down", ![l].noted = noted]
          /\ Record(link[l].server, Exit(noted), Host)
    /\ procs' = [procs EXCEPT ![link[l].server] = l]
    /\ UNCHANGED <<clients, cache, network, req, kills, asked, raced>>

\* The poll of stop finds the child gone.
PollSees(h, l) ==
    /\ l \in doomed[h] /\ link[l].life = "down"
    /\ link' = [link EXCEPT ![l].noted = "exited"]
    /\ procs' = [procs EXCEPT ![link[l].server] = l]
    /\ doomed' = [doomed EXCEPT ![h] = @ \ {l}]
    /\ UNCHANGED <<clients, cache, network, rows, req, forced, asked, raced>>

\* STOP_TIMEOUT_MS have passed: SIGKILL.
Kills(h, l) ==
    /\ l \in doomed[h] /\ link[l].life \in {"up", "killed"}
    /\ link' = [link EXCEPT ![l].life = "killed"]
    /\ doomed' = [doomed EXCEPT ![h] = @ \ {l}]
    /\ forced' = [forced EXCEPT ![h] = @ \cup {l}]
    /\ UNCHANGED <<maps, network, rows, req, asked, raced>>

\* 100 ms later the child counts as failed, whether its end has been seen or not.
Killed(h, l) ==
    /\ l \in forced[h]
    /\ link' = [link EXCEPT ![l].noted = "failed"]
    /\ procs' = [procs EXCEPT ![link[l].server] = l]
    /\ forced' = [forced EXCEPT ![h] = @ \ {l}]
    /\ UNCHANGED <<clients, cache, network, rows, req, doomed, asked, raced>>

-----------------------------------------------------------------------------
(* Stop, stopAll, listTools. *)

\* Runner.stop of the names ns: an entry that has ended is dropped, any other child is sent SIGTERM.
RunnerStops(h, ns) ==
    /\ procs' = [n \in Servers |->
                    IF n \in ns /\ procs[n] # None /\ ~HasProcess(n) THEN None ELSE procs[n]]
    /\ doomed' = [doomed EXCEPT ![h] = {procs[n] : n \in {m \in ns : HasProcess(m)}}]
    /\ UNCHANGED link

Asked(h, op, n, todo, at, l) ==
    req' = [req EXCEPT ![h] = [op |-> op, dry |-> FALSE, todo |-> todo, name |-> n,
                               at |-> at, link |-> l]]

\* stop(n) within request op, with todo to be stopped after it.
StopsName(h, op, n, todo) ==
    IF clients[n] # None
    THEN /\ link' = IF link[clients[n]].life = "up"
                    THEN [link EXCEPT ![clients[n]].life = "closing"]
                    ELSE link
         /\ Asked(h, op, n, todo,
                  IF link[clients[n]].life = "up" THEN "closing" ELSE "closed", clients[n])
         /\ UNCHANGED <<procs, doomed>>
    ELSE /\ RunnerStops(h, {n})
         /\ Asked(h, op, n, todo, "killing", None)

StopRequest(h) ==
    /\ Arrives(h)
    /\ \E n \in Servers : StopsName(h, "stop", n, {})
    /\ UNCHANGED <<clients, cache, network, rows, forced, raced>>

\* stopAll over the names mapped when it begins; without any, the runner is stopped at once.
StopAllRequest(h) ==
    /\ Arrives(h)
    /\ LET mapped == {n \in Servers : HasClient(n)}
       IN  IF mapped = {}
           THEN RunnerStops(h, Servers) /\ Asked(h, "stop", AnyServer, {}, "killing", None)
           ELSE \E n \in mapped : StopsName(h, "stopAll", n, mapped \ {n})
    /\ UNCHANGED <<clients, cache, network, rows, forced, raced>>

\* Nothing more is awaited by the stop of one name.
Rests(h) ==
    /\ req[h].at \in {"next", "killing"} /\ Written(h)
    /\ doomed[h] = {} /\ forced[h] = {}

StopAllGoesOn(h) ==
    /\ req[h].op = "stopAll" /\ Rests(h)
    /\ IF req[h].todo = {}
       THEN RunnerStops(h, Servers) /\ Asked(h, "stop", req[h].name, {}, "killing", None)
       ELSE \E n \in req[h].todo : StopsName(h, "stopAll", n, req[h].todo \ {n})
    /\ UNCHANGED <<clients, cache, network, rows, forced, asked, raced>>

\* listTools of a mapped server that is not answered from the cache.
ListRequest(h) ==
    /\ Arrives(h)
    /\ \E n \in Servers :
          /\ HasClient(n) /\ link[clients[n]].life = "up"
          /\ Asked(h, "list", n, {}, "list", clients[n])
    /\ UNCHANGED <<link, maps, network, rows, kills, raced>>

ListAnswers(h) ==
    /\ req[h].at = "list" /\ Alive(req[h].link)
    /\ cache' = [cache EXCEPT ![req[h].name] = req[h].link]
    /\ Goes(h, "next", None)
    /\ UNCHANGED <<link, clients, procs, network, rows, kills, asked, raced>>

\* The server answers with an error or not in time, or its connection is closed.
ListFails(h) ==
    /\ req[h].at = "list"
    /\ Goes(h, "next", None)
    /\ UNCHANGED <<link, maps, network, rows, kills, asked, raced>>

\* The request returns.
Returns(h) ==
    /\ req[h].op \in {"start", "stop", "list"} /\ req[h].todo = {} /\ Rests(h)
    /\ req' = [req EXCEPT ![h] = Idle]
    /\ UNCHANGED <<link, maps, network, rows, kills, asked, raced>>

-----------------------------------------------------------------------------
Ask(h) == StartRequest(h) \/ StopRequest(h) \/ StopAllRequest(h) \/ ListRequest(h)

Starts(h) ==
    \/ TakesServer(h) \/ MissesSecrets(h) \/ IsRefused(h) \/ AsksNetwork(h)
    \/ NetworkMissing(h) \/ AlreadyConnected(h) \/ Connects(h) \/ CannotConnect(h)
    \/ Connected(h) \/ ConnectFails(h) \/ AlreadyRunning(h) \/ Spawns(h)

Stops(h) ==
    \/ Closed(h) \/ StopAllGoesOn(h)
    \/ \E l \in Links : PollSees(h, l) \/ Kills(h, l) \/ Killed(h, l)

Serves(h) == Starts(h) \/ Stops(h) \/ ListAnswers(h) \/ ListFails(h) \/ Returns(h)

\* What the database, docker and the operating system owe the host.
HostIsAnswered ==
    \/ \E w \in writes : Lands(w) \/ IsLost(w)
    \/ NetworkAnswers
    \/ \E l \in Links : Spawned(l) \/ Closes(l)

Dies == \E l \in Links : ServerDies(l) \/ ChildEnds(l)

HostNext == HostIsAnswered \/ Dies \/ \E h \in Requests : Ask(h) \/ Serves(h)

HostSpec == HostInit /\ [][HostNext]_hostVars

-----------------------------------------------------------------------------
(* Properties. *)

HostTypeOK ==
    /\ link \in [Links -> Link]
    /\ clients \in [Servers -> Links \cup {None}]
    /\ cache \in [Servers -> Links \cup {None}]
    /\ procs \in [Servers -> Links \cup {None}]
    /\ network \in {"unchecked", "checking", "ready", "rejected"}
    /\ status \in [Servers -> Statuses]
    /\ writes \subseteq Write
    /\ req \in [Requests -> Request]
    /\ doomed \in [Requests -> SUBSET Links]
    /\ forced \in [Requests -> SUBSET Links]
    /\ asked \in 0..MaxRequests
    /\ raced \subseteq Servers
    /\ smudged \subseteq Servers

\* Somebody still knows the link: a map, or a request that is opening, closing or
\* killing it.
Held(l) ==
    \/ clients[link[l].server] = l
    \/ procs[link[l].server] = l
    \/ \E h \in Requests :
          \/ req[h].link = l /\ req[h].at \in {"connect", "closing"}
          \/ l \in doomed[h] \cup forced[h]

\* A server process nobody can stop any more has a name that was opened again while
\* an earlier start or stop of it was unfinished: no sequence of requests of which each
\* waits for the one before loses a process (start 411-429, stop 528-538; runner.ts 70-189).
OnlyRacesOrphan ==
    \A l \in Links : Alive(l) => Held(l) \/ link[l].server \in raced

\* The tools cached for a connected server were listed by the connection it has now,
\* under the same condition: a list that is answered late never outlives its server
\* (listTools 697-713, toolCache.delete 424, 533).
CacheIsCurrent ==
    \A n \in Servers :
        HasClient(n) /\ cache[n] # None => cache[n] = clients[n] \/ n \in raced

\* A row that says running, once no update of it is under way and none was lost or
\* overtaken, is a server the host has: a client in the map or a child that lives.  No
\* end of a server is left unrecorded, however starts and stops of it interleave
\* (recordStatus 835-847, handleRunnerLifecycle 849-863).
RunningIsHad ==
    \A n \in Servers :
        status[n] = "running" /\ n \notin smudged /\ (\A w \in writes : w.server # n)
            => \/ HasClient(n)
               \/ \E l \in Links : link[l].server = n /\ link[l].via = "runner" /\ Born(l) /\ ~Gone(l)
=============================================================================
