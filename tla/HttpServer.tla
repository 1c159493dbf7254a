----------------------------- MODULE HttpServer -----------------------------
(***************************************************************************)
(* The process as a whole: main() takes the port over from an older        *)
(* instance and starts the threads; the server accepts clients up to a     *)
(* limit and makes its socket anew when the network is gone; a shutdown    *)
(* asked for by a client ends all of it, also if a cheat is stuck.         *)
(***************************************************************************)
EXTENDS Integers, FiniteSets

CONSTANTS
  Clients,      \* connections
  NoClient,     \* not one of them
  HttpMax,      \* HTTP_MAX_CONCURRENT
  MaxSpins      \* bound: attempts to kill the older instance

ASSUME HttpAssumption ==
  /\ NoClient \notin Clients
  /\ HttpMax \in Nat \ {0} /\ MaxSpins \in Nat \ {0}

VARIABLES
  main,       \* [at, n]: where main() is, with the count of its loop
  old,        \* the older instance: gone, killable, shielded, hidden, zombie, leaving
  http,       \* where the server's thread is
  listener,   \* g_http_listen_fd: none, open, stale (the network was gone), down
  resume,     \* [flag, seen]: g_net_resume_flag, and whether the watchdog took it
  client,     \* per connection: none, counted, serving
  active,     \* g_active_clients
  apply,      \* who holds the lock of the cheat engine
  quit        \* [asked, at]: g_shutdown_requested, the thread that ends the process

httpVars == <<main, old, http, listener, resume, client, active, apply, quit>>

HttpInit ==
  /\ main = [at |-> "kill", n |-> 0]
  /\ old \in {"gone", "killable", "shielded", "hidden", "zombie"}
  /\ http = "off" /\ listener = "none"
  /\ resume = [flag |-> FALSE, seen |-> FALSE]
  /\ client = [c \in Clients |-> "none"] /\ active = 0
  /\ apply = NoClient
  /\ quit = [asked |-> FALSE, at |-> "off"]

ServerRuns == main.at # "ended"
\* A zombie has closed its files; it only still has a pid.
HoldsPort == old \in {"killable", "shielded", "hidden", "leaving"}
Named == old \in {"killable", "shielded", "zombie"}

-----------------------------------------------------------------------------
(* main(). *)

server == <<http, listener, resume, client, active, apply, quit>>

\* The older instance is killed by name, for as long as its name is there.
KillOld ==
  /\ main.at = "kill" /\ Named /\ main.n < MaxSpins
  /\ \/ old = "shielded" /\ main' = [at |-> "evict", n |-> 0] /\ UNCHANGED old
     \/ /\ old # "shielded" /\ main' = [main EXCEPT !.n = @ + 1]
        /\ old' \in IF old = "zombie" THEN {"zombie"} ELSE {"gone", "zombie"}
  /\ UNCHANGED server

NoOldLeft ==
  /\ main.at = "kill" /\ (~Named \/ main.n >= MaxSpins)
  /\ main' = [at |-> "evict", n |-> 0]
  /\ UNCHANGED <<old, server>>

\* One that survived and answers on the port is asked to exit, twice at most.
\* Its answer is waited for two seconds, its exit a second and a half.
EvictOld ==
  /\ main.at = "evict" /\ HoldsPort /\ main.n < 2
  /\ old' \in {old, "leaving"}
  /\ main' = [main EXCEPT !.n = @ + 1]
  /\ UNCHANGED server

\* Nothing answers, the rounds are over, or the port cannot be asked.
Evicted ==
  /\ main.at = "evict"
  /\ main' = [at |-> "start", n |-> 0]
  /\ UNCHANGED <<old, server>>

OldLeaves ==
  /\ old = "leaving" /\ old' = "gone"
  /\ UNCHANGED <<main, server>>

\* The process is over, and with it its threads and its files.
Ended ==
  /\ main' = [at |-> "ended", n |-> 0]
  /\ http' = "off" /\ listener' = "none" /\ resume' = [flag |-> FALSE, seen |-> FALSE]
  /\ client' = [c \in Clients |-> "none"] /\ active' = 0 /\ apply' = NoClient
  /\ quit' = [quit EXCEPT !.at = "off"]

\* The data is loaded and four threads are started; without one of them main()
\* returns.
StartThreads ==
  /\ main.at = "start"
  /\ \/ main' = [at |-> "join", n |-> 0] /\ http' = "try"
        /\ UNCHANGED <<listener, resume, client, active, apply, quit>>
     \/ Ended
  /\ UNCHANGED old

\* The server's thread is joined, the others are told and joined.
MainReturns ==
  /\ main.at = "join" /\ http = "stopped" /\ Ended
  /\ UNCHANGED old

-----------------------------------------------------------------------------
(* http_server_thread(). *)

httpFrame == <<main, old, resume, apply, quit>>

\* socket(), bind() or listen() fails; what was opened is closed.
ListenFails ==
  /\ http = "try"
  /\ http' = IF quit.asked THEN "stopped" ELSE "try"
  /\ UNCHANGED <<httpFrame, listener, client, active>>

Listen ==
  /\ http = "try" /\ ~quit.asked /\ ~HoldsPort
  /\ http' = "accept" /\ listener' = "open"
  /\ UNCHANGED <<httpFrame, client, active>>

\* The count is taken before the thread is there.
Accept(c) ==
  /\ http = "accept" /\ ~quit.asked /\ listener = "open"
  /\ client[c] = "none" /\ active < HttpMax
  /\ client' = [client EXCEPT ![c] = "counted"] /\ active' = active + 1
  /\ http' = "spawn"
  /\ UNCHANGED <<httpFrame, listener>>

\* Over the limit: 503.
Refuse ==
  /\ http = "accept" /\ ~quit.asked /\ listener = "open" /\ active >= HttpMax
  /\ UNCHANGED httpVars

\* No memory or no thread: the connection is closed and the count given back.
Spawn(c) ==
  /\ http = "spawn" /\ client[c] = "counted" /\ http' = "accept"
  /\ \/ client' = [client EXCEPT ![c] = "serving"] /\ UNCHANGED active
     \/ client' = [client EXCEPT ![c] = "none"] /\ active' = active - 1
  /\ UNCHANGED <<httpFrame, listener>>

\* accept() on a socket that was shut down, or another error: the socket is
\* closed, unless the thread that ends the process has done so.
AcceptFails ==
  /\ http = "accept" /\ (listener # "open" \/ quit.asked)
  /\ listener # "stale"          \* there accept() may block for long
  /\ listener' = "none" /\ http' = IF quit.asked THEN "stopped" ELSE "try"
  /\ UNCHANGED <<httpFrame, client, active>>

StaleAcceptFails ==
  /\ http = "accept" /\ listener = "stale"
  /\ listener' = "none" /\ http' = IF quit.asked THEN "stopped" ELSE "try"
  /\ UNCHANGED <<httpFrame, client, active>>

-----------------------------------------------------------------------------
(* The network, and http_net_watchdog_thread(). *)

watchdogFrame == <<main, old, http, client, active, apply, quit>>

\* The console sleeps; on its way back the process gets SIGCONT.
SleepAndResume ==
  /\ ServerRuns /\ http # "off"
  /\ listener' = IF listener = "open" THEN "stale" ELSE listener
  /\ resume' = [resume EXCEPT !.flag = TRUE]
  /\ UNCHANGED watchdogFrame

\* The flag is taken down first: a signal from now on is seen in the next round.
TakeFlag ==
  /\ http # "off" /\ ~quit.asked /\ resume.flag /\ ~resume.seen
  /\ resume' = [flag |-> FALSE, seen |-> TRUE]
  /\ UNCHANGED <<watchdogFrame, listener>>

\* Mutant of ShutdownListener: only a server that waits on the socket is told.
ShutdownIfAccepting ==
  /\ resume.seen /\ resume' = [resume EXCEPT !.seen = FALSE]
  /\ listener' = IF http = "accept" /\ listener # "none" THEN "down" ELSE listener
  /\ UNCHANGED watchdogFrame

ShutdownListener ==
  /\ resume.seen /\ resume' = [resume EXCEPT !.seen = FALSE]
  /\ listener' = IF listener # "none" THEN "down" ELSE listener
  /\ UNCHANGED watchdogFrame

-----------------------------------------------------------------------------
(* A client's thread. *)

clientFrame == <<main, old, http, listener, resume>>

\* The request was read, or not, and answered; the count goes last.
Close(c) ==
  /\ client[c] = "serving" /\ apply # c
  /\ client' = [client EXCEPT ![c] = "none"] /\ active' = active - 1
  /\ UNCHANGED <<clientFrame, apply, quit>>

BeginApply(c) ==
  /\ client[c] = "serving" /\ apply = NoClient /\ apply' = c
  /\ UNCHANGED <<clientFrame, client, active, quit>>

EndApply(c) ==
  /\ apply = c /\ apply' = NoClient
  /\ UNCHANGED <<clientFrame, client, active, quit>>

\* cheatrunner_request_shutdown(): a thread that waits first, or without memory
\* or a thread the same at once and without the saves.
RequestShutdown(c) ==
  /\ client[c] = "serving" /\ apply # c /\ quit.at = "off"
  /\ \/ quit' = [quit EXCEPT !.at = "delay"] /\ UNCHANGED listener
     \/ quit' = [asked |-> TRUE, at |-> "wait"] /\ listener' = "none"
  /\ UNCHANGED <<main, old, http, resume, client, active, apply>>

-----------------------------------------------------------------------------
(* delayed_shutdown_thread() and kill_after_no_apply_in_flight(). *)

CloseServers ==
  /\ quit.at = "delay" /\ quit' = [asked |-> TRUE, at |-> "save"]
  /\ listener' = "none"
  /\ UNCHANGED <<main, old, http, resume, client, active, apply>>

Save ==
  /\ quit.at = "save" /\ quit' = [quit EXCEPT !.at = "wait"]
  /\ UNCHANGED <<main, old, http, listener, resume, client, active, apply>>

\* Mutant of Kill: the lock is waited for without a limit.
KillWhenFree ==
  /\ quit.at = "wait" /\ apply = NoClient /\ Ended
  /\ UNCHANGED old

\* The lock was free within two seconds, or the two seconds are over.
Kill ==
  /\ quit.at = "wait" /\ Ended
  /\ UNCHANGED old

-----------------------------------------------------------------------------
Main == KillOld \/ NoOldLeft \/ EvictOld \/ Evicted \/ StartThreads
ListenWatchdog == TakeFlag \/ ShutdownListener
Killer == CloseServers \/ Save \/ Kill
\* What is scheduled fairly: main() up to its join, the two service threads, and
\* of the server what does not wait for others.  A cheat may be stuck, a request
\* may last, an accept may block and the join may wait for a thread that hangs.
ServerThread == Listen \/ AcceptFails \/ \E c \in Clients : Spawn(c)
HttpNext ==
  \/ Main \/ OldLeaves \/ MainReturns
  \/ ListenFails \/ Listen \/ Refuse \/ AcceptFails \/ StaleAcceptFails
  \/ SleepAndResume \/ ListenWatchdog \/ Killer
  \/ \E c \in Clients : \/ Accept(c) \/ Spawn(c) \/ Close(c) \/ BeginApply(c)
                        \/ EndApply(c) \/ RequestShutdown(c)

-----------------------------------------------------------------------------
\* The types, and that the count of connections is the number of connections.
HttpTypeOK ==
  /\ main \in [at : {"kill", "evict", "start", "join", "ended"}, n : 0..(MaxSpins + 2)]
  /\ http \in {"off", "try", "accept", "spawn", "stopped"}
  /\ listener \in {"none", "open", "stale", "down"}
  /\ active = Cardinality({c \in Clients : client[c] # "none"}) /\ active <= HttpMax
  /\ apply \in Clients \cup {NoClient}

\* A shutdown that was asked for ends the process, whatever a cheat does.
Exits == (quit.at # "off") ~> ~ServerRuns

\* Once no older instance has the port, the server always comes back to an open
\* socket, though the console sleeps and its socket with it.
Listens ==
  (<>[]~HoldsPort /\ <>[](http # "off")) => []<>(listener = "open" \/ quit.asked)
=============================================================================
