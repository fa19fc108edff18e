# TLA+ specification of the Stackdriver metadata agent

The metadata agent is a daemon that collects metadata about the monitored
resources of a machine (the instance itself, docker containers, Kubernetes pods,
nodes and services), keeps it in memory, answers local lookups over HTTP and
reports everything periodically to the Stackdriver ingestion service. This
directory holds TLA+ modules translated from its C++ source, TLC configurations
that check them on small instances, and TLAPS proofs of the results that matter
most for every value of the parameters. `PROJECT.json` maps each definition to
the source lines it stands for.

Run a check with `tlc -config X.cfg M`, a proof with `tlapm M.tla` for a module `M` whose name
ends in `Proofs`.

## 1. The system

| component | state | operations | talks to |
|---|---|---|---|
| store (`store.*`) | `resource_map_` (id to resource) under `resource_mu_`; `metadata_map_` and `last_collection_times_` under `metadata_mu_` | `LookupResource`, `UpdateResource`, `UpdateMetadata`, `GetMetadataMap`, `GetLastCollectionTimes`, `PurgeDeletedEntries` | called by all others |
| timer (`time.h`) | a `timed_mutex` whose being locked means "not cancelled" | `Init`, `Wait`, `Cancel` | waits of updaters and reporter, cancelled from another thread |
| polling updater (`updater.*`) | period, timer, thread | `Start` with two validations, `PollForMetadata`, `NotifyStop`, destructor | a reader's query; the store |
| reporter (`reporter.*`) | timer, thread, the request being filled | `ReportMetadata`, `SendMetadata`, `SendMetadataRequest`, `NotifyStopReporter`, destructor | the store; the ingestion service; OAuth2 |
| API server (`api_server.*`) | a pool of threads | `HandleMonitoredResource`, `HandleHealthz`, dispatch | the store; the health checker |
| health checker (`health_checker.*`) | `unhealthy_components_` under `mutex_` | `SetUnhealthy`, `UnhealthyComponents` | the store, while it holds its own mutex |
| Kubernetes updater and reader (`kubernetes.*`) | up to four watch threads; caches of services, endpoints, owners and API paths; token, namespace, node name | `WatchMaster` with reconnect and silence timers, one callback per kind of object, `MetadataQuery`, `GetOwner` | the Kubernetes master; the store; the health checker |
| docker and instance readers (`docker.*`, `instance.*`) | none | `MetadataQuery`, validation with retries | the docker socket; the environment |
| OAuth2, environment (`oauth2.*`, `environment.*`) | cached auth header with its expiry; lazily read credentials and instance data | `GetAuthHeaderValue`, `GetMetadataString` | metadata server, token server |
| daemon (`metadatad.cc`, `agent.*`) | the agent, the updaters, the shutdown mutex | `main`, SIGTERM handler | all of them |
| configuration (`configuration.*`) | the values of the options | `ParseArguments`, `ParseConfigFile`, `ParseConfiguration` | read by all of them |
| HTTP over unix sockets (`http/local_*`, `asio/local_*`) | a socket, a timer, the promises of a response | `start` and one handler per asynchronous operation | the docker reader; the docker daemon |
| JSON (`json.*`) | a stack of contexts over yajl | `Serialize`, `ParseStream`, `NotifyEOF`, `FromStream` | the watches feed it events, the readers whole responses |
| formatting, logging, base64, time conversion | none | conversions | all of them |

What is hard in it:

* everything shared goes through short critical sections, and several logical
  operations are made of more than one of them: ids, then metadata; snapshot,
  then purge; cache, then list, then store; copy of the unhealthy set, then the
  clock, then the collection times;
* `LookupResource` hands out a reference that is read after the lock is gone;
* stops are edge-triggered: a cancel unlocks a mutex, and whoever locks the mutex
  next consumes it, so a stop can be lost if the wrong wait or an `Init` comes
  next;
* a report is many requests, any of which may fail after the service took its
  entries;
* watch events in flight are lost with their connection, and what happened
  before the next connection produces no event;
* responses and events arrive cut at any byte, and a connection may end, fail or
  time out between any two reads, with promises already set;
* SIGTERM runs ordinary code on any thread at any moment, and races the
  destructors of what that code uses.

`PROJECT.json` lists these hazards line by line with the properties aimed at them.

## 2. Modules

| module | models | composed of |
|---|---|---|
| `MetadataStore` | the store; also the abstract specification its clients implement | |
| `MetadataStoreProofs` | theorems about the store | `MetadataStore` |
| `Timer` | the cancellable timer, as actions on one Boolean | |
| `PollingUpdater` | one polling updater and the store it writes to | `MetadataStore`, `Timer` |
| `Readers` | the docker, instance and Kubernetes polling queries and their validation; implements `PollingUpdater` | `PollingUpdater` |
| `PollingUpdaterProofs` | theorems about the updater, alone and with its readers | `Readers`, `MetadataStoreProofs` |
| `Reporter` | the reporter, its requests, the store, and updaters as environment | `MetadataStore`, `Timer` |
| `ReporterProofs` | theorems about it | `Reporter`, `MetadataStoreProofs` |
| `ApiServer` | request handlers and the health checker on a pool of threads | `MetadataStore` |
| `ApiServerProofs` | theorems about them | `ApiServer`, `MetadataStoreProofs` |
| `ServiceMetadata` | the service and endpoints watches and the cluster entry they share | `MetadataStore` |
| `KubernetesWatch` | one watch thread: `WatchMaster`, the `Watcher`'s thread, the timers | |
| `WatchProofs` | theorems about the watch loop and about the service metadata | `KubernetesWatch`, `ServiceMetadata`, `MetadataStoreProofs` |
| `OwnerLookup` | the search for the top-level controller of a pod and its caches | |
| `PodMetadata` | the pod and node callbacks and what they store | `MetadataStore` |
| `PodProofs` | theorems about the owner lookup and about the pod metadata | `OwnerLookup`, `PodMetadata`, `MetadataStoreProofs` |
| `Environment` | the cached facts about the machine and the references to them | |
| `Authorization` | OAuth2's cached header and a report that uses it | `Environment` |
| `LocalConnection` | one request of the HTTP client over a Unix socket | |
| `JsonParser` | parsing a text that comes in chunks, and the grammar of the texts | |
| `JsonWriter` | serializing, and the recursive-descent reader of whole texts | `JsonParser` |
| `StreamProofs` | theorems about the local connection and about the parser | `LocalConnection`, `JsonParser` |
| `Lifecycle` | the configuration, `main`, the agent, the SIGTERM handler, and the updaters by how far they exist | |
| `AgentProofs` | theorems about the life cycle, and about the environment and authorization | `Lifecycle`, `Authorization` |
| `MC...` | instances for TLC | |

**Store.** `std::map` is a total function with the value `None` for a missing
key. Each operation holds one lock throughout, so it is one action. An entry
keeps `is_deleted`, `collected_at`, `ignore` and one opaque payload for version,
creation time and JSON body. `StoreNext` allows any caller in any order with any
entry; `collected_at` is free, because slow queries store late.

**Timer.** `locked` is the mutex. `WaitTimedOut` and `WaitCancelled` are the two
results of `Wait`; spurious wakeups go round its loop. `Cancel` on a mutex locked
by another thread, or by nobody, is undefined in C++; the model uses what the
mutex of the Linux C library does.

**Polling updater.** `upc` is the position of `Start`, then of the thread:
`PollQuery` chooses what the reader returned, and each result takes two actions
because `UpdateResource` and `UpdateMetadata` take different locks.
`NotifyStopUpdater` may come at any time, the destructor joins without
cancelling, and the reporter may purge between any two steps. `stopping` is a
ghost: a stop that reached a started updater. A stop before `Start` only unlocks
an unlocked mutex and leaves no trace; `StartUpdater` then starts as if nothing
had happened.

An exception out of `query_metadata_` ends the process, as does one out of `Start`
(`Terminated`). A query need not end: the requests to docker (`docker.cc:204`) and to the
Kubernetes master (`kubernetes.cc:635`) have no timeout.

**Readers.** `reader` is chosen at the start; the docker reader exists in two builds.
`world` is external: containers, nodes and pods come, die and go between any two steps.
A query goes through its lists (containers; or nodes, then pods): `pending` is what is
left of the list at hand, `built` the result so far. Containers are inspected when
their turn comes, and may be gone by then; nodes and pods come with their list. Each
list and each object may fail, in the way the `catch` clauses sort it. A container or a pod
that fails is left out (`ObjectSkipped`); a node that fails ends the loop over nodes
(`NodeFails`). What no clause catches is `QueryThrows`: `InstanceResource` finds no instance
data, docker breaks off within the headers of a response (`BrokenResponse`, a
`broken_promise`), or the owner of a pod is of a kind that `KindPath` does not know
(`UnknownOwnerKind`, a `std::string`). Two ghosts: `lasting` are the objects of this round that
neither changed nor failed, `cut_off` the nodes of this round behind one that failed.
`PollingUpdater` leaves the result vector open (`ResultVectors`); the run checks that the
readers implement it.

**Reporter.** `rpc` is the position of the thread. `Collect` copies the map under
its lock; the loop of `SendMetadata` takes entries in the order of the map and
drops, adds, or flushes. `RequestFails` covers connection errors and bad status;
whether the service took the entries before the answer was lost is left open. Payloads in
`Rejected` are answered with a bad status every time.
`ingested` is a ghost: the last entry of each resource the service took.

**API server.** `hpc[t]` is the position of a handler thread. A lookup is two
steps, the map access under the lock and the read through the reference without
it. A health check is two steps that hold `health_mu`, the second of which (`ReadTimes`) has to
wait for `metadata_mu`; updaters and the reporter take and release that one around what they do.
A watch thread that gives up is `dying` until `SetUnhealthy` has got the health mutex.
`arrival` is a ghost of what was known when the request came. The clock is taken
to be monotone, as long as nobody sets it back. The handler of a request that no path
matches is not called and nobody answers (`UnmatchedRequest`). Updaters store and the
reporter purges between any two steps.

**Service metadata.** Each watch has a position `wpc`: the cache update, the list
and the store are separate critical sections. The master is external: `actual`
are its objects, `stream` the events it has sent. A connection that the master ends, or that
fails, loses its stream (`Disconnect`); one that a timer ends (`TimerEnds`) stays in the
`io_service`, and its events, past and future (`leftover`), come between those of the
next connection (`StaleEvent`) or spoil them (`EventGarbled`), from then on (`mixed`). A new
connection begins with the existing objects in any order. It is made only when the callback at
hand has returned, because `WatchMaster` joins the thread that runs it. `last_writer` is a ghost.

**Watch loop.** `master_pc` is the position of `WatchMaster`, `runner` and `stopped` its
`Watcher`'s thread and the `io_service` that thread runs; `armed` and `queued` are the
two timers before and after they expire, because a handler that is queued is no longer
cancelled. The HTTP client is external and behaves like the adapted copy in
`src/http`. `conn` and `response` are the connection of this iteration and what
`body(response)` would do. When a timer ends an iteration, the connection stays behind
in the `io_service` (`stale`), and the next thread runs its handlers, which call a
`Watcher` that is gone; the model gives such a call the effect it has on the new
`Watcher` at the same place on the stack. The watch's callback runs on the `Watcher`'s thread,
within the handler that read the data (`callback`): until it returns no timer's handler runs.
The callback of the pods' watch queries the master itself, without a timeout, so it may block for
good (`CallbackBlocks`), and it may end the process (`CallbackTerminates`). `lost` is a master
that has gone silent; `bad` is a ghost that counts connections in a row without a response.

**Owner lookup.** The master is external: objects are created, deleted, replaced under
their names and adopted between any two queries, and kinds come to be `served` or no longer are.
A list of kinds is fetched once per API version and kept. Every owner is asked for under
`/namespaces/`, also one of a kind that is not `Namespaced`, which the master does not find
there. `chain` is the pod and the owners found
so far; the caches `owners`, `asked` and `known` live on between searches. Two ghosts: `past` is
every object the master ever had, `fetched_without` the kinds that a list lacked when it was
fetched in full. One thread searches (with polling switched on
as well as watching there would be two, each taking `mutex_` for one owner at a time).

**Pod metadata.** An event is a record of what the results depend on. The results of an
event are a vector, stored result by result in two steps each, while the node thread
stores and the reporter purges. Which controller a search found is left open.

**Environment and authorization.** A getter is the part under the lock, the query of the
metadata server with the lock held, and the copy by the caller without it. A member that
was empty when it was returned may be assigned while it is copied; the copy is then
whatever the race leaves (`Torn`). A token is when it was issued, when it arrived and its
lifetime; the clock may advance between any two steps.

**Local connection.** The response is a stream of numbered bytes: four header sections and
the body. `op` is the asynchronous operation under way, `rstate` the state that its read
handler has captured. A read takes any number of the bytes there are, up to the size of the
buffer, so that it may end within a section or run over several of them; the branches of
`handle_received_data` are actions. Handlers are serialized by the strand, so each is one
action. `Destroyed` is the end of the last `shared_ptr`: promises not set by then are
broken. The server may send, close or fail at any time, and need not do anything.

**JSON.** A text is a sequence of the events that yajl reports. yajl (external) hands them to the
handlers of `json.cc` one by one; each handler is an action on the stack of contexts, and
`YajlRefuses` is a syntax error. A chunk ends anywhere; a number at the end of a chunk is not
reported until something follows it. The client is `FromStream`, or a `Watcher` whose callback
may throw and which goes on with the same parser. `long long` has two bits in the instance, with
the numbers just inside and just outside. Numbers whose `long double` value no `double` has are
left out, and so are, for a `Watcher`, texts with a scalar at the top: the masters' events are
objects, and after what the handler of such a scalar throws yajl might go on.

`Serialize` goes through the calls of `yajl_gen_...` one by one (`Generate`). A call that the
generator refuses, for a string that is not UTF-8 or a number that is not finite, writes nothing,
and nobody looks at its status: an element is missing, or the next field name is written as the
value of the field at hand. Of two values in a row one is an array or an object, because nothing
is written between them.

What a text means is stated apart from the stack. Its reading (`Reading[t]`) says of every event
which value begins there and where it ends, and `IsReading` gives the grammar as equations between
those. Every equation refers to events further on, so a text has exactly one reading and the
assumption that `Reading[t]` is one (`JsonAssumption`) restricts nothing. It is a constant because
a recursive operator could not be proved about. In the run it is computed by recursive descent
(`ReadingOf` in `JsonWriter`), and TLC checks the assumption, so the reader and the grammar agree
there too.

**Life cycle.** `main` reads the file, then the command line, into the option map, decides
with it which updaters poll, watch or stay off, starts them and then server and reporter, and
waits for the mutex. `Sigterm(h)` begins run `h` of the handler, on main's thread, which then
does not go on, or on another. A handler that uses what has been destroyed is recorded in
`dangling`, and the process may or may not crash then; one that runs before the server exists
dereferences a null pointer. Both the threads of the daemon and the handler log, under a plain
`std::mutex`: `in_log` says that a handler interrupted a thread which holds it, and this handler, or
any other, then stops at its first log statement (`StopServerBlocks`, `NotifyBlocks`). Updaters, server and reporter are abstracted to how much of them
exists; what their threads do is in the other modules.

## 3. Runs

| run | instance | shows |
|---|---|---|
| `polling` | each reader; 3 containers, 2 of which share a name over time, 2 nodes, a pod with a container; 3 changes, 3 validation attempts, periods -1..1 | the readers implement `PollingUpdater` (`UpdaterSpec`); metadata is visible only when the ids resolve; what neither changed nor failed in a round is in the store when the thread sleeps, except for nodes behind one that failed; a stop is never lost, begins no further round and ends a thread that is out of its query |
| `reporter` | 3 resources, entries of 4, 8 and 13 bytes against 12, 2 per request, one payload that is always rejected, deletions, 1 failure, with purge | requests within the limits, no entry skipped; seen deletions are purged only once taken; entries that stay are reported in the end, unless a rejected one is before them or in the same request; a stop in the loop ends the thread |
| `api` | 2 threads, an updater, the reporter, 1 watch, 1 id claimed by 2 resources, 1 type, times 0..2, deleted, late and ignored entries, maximum age 1 | a known id is answered with its resource; collection times cover the stored entries; 200 from `/healthz` contradicts nothing known on arrival; a watch thread that fails gets to report it, in whatever order the two mutexes are taken |
| `services` | 2 services, 2 bodies, 3 changes, 1 disconnection per watch, by the master or by a timer | caches have every object of the master after a connection that the master ended; the last writer's half of the cluster entry is current, also with events of an old connection among the new ones |
| `services_stale_entry` | 1 service, 3 changes, no disconnection | **violated**: the entry falls behind the caches |
| `watch` | pods or other objects, every set of timers, with and without verbose logging, unlimited or 4 iterations, 1 failure allowed | without timers an iteration ends with its own connection; the thread gives up only after the failures or iterations configured; the interval and the silence timer lead to a new connection, unless a callback is stuck in a query |
| `owners` | a replica set and a deployment of one API version, a node (without a namespace) of another, 3 uids, 4 changes of objects and of the kinds served, 1 failed query | chains are genuine; without failed queries a search fails only if the owner is gone or has no namespace, and ends the process only for a kind that was not served when the list was fetched; searches end |
| `pods` | see `MCPodMetadata`: a pod recreated under its name, 2 containers, a node, 3 events | at rest a pod and its containers agree; ids resolve to their resource |
| `authorization` | reporter and 2 readers, 3 names, lifetimes 1 and 3, slack 2, times 0..4, readers symmetric | values are copied as they were returned; requests within the slack carry a valid token |
| `local` | sections of 2 bytes, a body of 3, a buffer of 5, 1 chunk to send; with and without timer, callback and body; any section malformed | no promise is set twice; a body is whole or an error; a callback gets the bytes in order and the end once; futures are answered unless the server closed in the headers; the request ends |
| `json` | 17 values with numbers around the limits, nesting of depth 2 and what the generator refuses, pairs of them, 7 other texts; every cut into chunks and every early end | at every event the values delivered are those of the grammar; a text is accepted just if it is whole; values that the generator accepts are read back |
| `lifecycle` | the 3 updaters, 3 files and 3 command lines, 2 SIGTERMs | one handler alone never meets destroyed components; no updater starts after its stop; the process ends, unless a SIGTERM interrupted a thread that was logging |

**Bounds.** Two resources that claim one id are what could change a mapping; three times give an
entry between two others.
Three containers give a list of two and one more that takes a name over (no two have a
common name at the same time); two nodes show the end of the loop over nodes. Sizes
are chosen around the limits: a small and a medium entry fill a request exactly, two
of 8 bytes are split by bytes alone, three small ones by count alone, a large one fits nowhere.
`MaxFailures` bounds failing requests: one is enough to split a report in a sent and
an unsent part, and liveness needs failures to be finite anyway. In `services`, three changes
give both objects of a service and a change or a deletion of one; `MaxDisconnects` = 1 gives the
gap, or the connection that a timer leaves behind. In `owners`, three uids are an owner, its
owner and one that takes the name of either; the node is an owner that exists and is never found. In `local` a buffer of 5 holds two sections and a half, so that reads end before,
in and behind the body, and the whole response takes two or more. In `lifecycle` files and
options contradict each other, have a negative period, an unreadable value and an unknown
key; two signals are the first case in which a handler can meet another. Lifetimes of
1 and 3 against a slack of 2 give a token that is never taken from the cache and one that
is. `polling` ends with an uncaught exception, the
services, owner, pod and authorization runs stop when these bounds are used up, in
`watch` a thread may end or hang, and `local`, `json` and `lifecycle` end with the request,
the text and the process, so these do not check for deadlock; the other runs do. The type
invariants (`...TypeOK`) say what the variables hold; where there are proofs they are part of
the inductive invariant. The runs spend their time on the other properties.

**Fairness.** Weak fairness is assumed of threads the operating system schedules, as far as they
wait for nothing outside the process, and strong fairness where a mutex is released again and
again: who waits for it gets it.

* `PollingUpdater`, `Readers`: the polling thread outside its query. Nothing is owed of a query, because docker's and the Kubernetes master's
  answers are waited for without a timeout, so `StoppedUpdaterFinishes` is about threads that
  are out of theirs.
* `Reporter`: its thread, and `join` once that has returned. That a request ends in an answer or an error is an assumption on the
  network: the code sets no timeout.
* `ApiServer`: a handler inside a request (strong for `ReadTimes`, which waits for
  `metadata_mu_`), critical sections of updaters and reporter that have begun, and
  `SetUnhealthy` (strong, it waits for the health mutex).
* `KubernetesWatch`: both threads run and callbacks return unless they wait for an answer. The
  reconnect timer expires and queued handlers run, however often data arrives in between (strong);
  the silence timer is sure to expire only once the master is silent, because data sets it again.
* `OwnerLookup`: the search. That its queries end is an assumption, as for the reporter;
  `KubernetesWatch` does without it.
* `LocalConnection`: handlers of completed operations run and an armed timer expires, but the
  server owes nothing; a read that has nothing to read does not complete.
* `Lifecycle`: main after its wait, and handlers that do not block. Start-up, which validates by
  queries, polling, watches that give up, the end of the reporter's destructor and signals are
  not owed, so `ShutdownEnds` does not lean on them.

No fairness is assumed of clients, of what updaters begin, the clock, stops or the master.
`JsonParser` has no liveness property.

## 4. Findings

One disagreement has a run that exhibits it:

1. `services_stale_entry`: two threads build and store the list of services without
   holding a lock over both, and the older list may win. `LastWriterIsCurrent` is what
   holds instead.

Others show as a condition that a property needs and the code's comments do not have:

2. `LoopStopIsHonoured` is about stops in the reporting loop: the reporter's thread initializes
   its own timer and ignores the result of the initial wait, so a stop before or during it is
   lost, and the destructor joins a thread that never ends. In the daemon this is hidden, because
   the handler of SIGTERM exits the process (`ShutdownEnds`) and does not notify the reporter.
3. `PurgedWasReported` is about entries that did not change since the snapshot: the purge
   works on the live map, so a deletion that arrives in between is purged unreported.
4. `CachesFollowMaster` is about objects that exist: nothing removes a service that was
   deleted while its watch was disconnected.
5. `GivesUpOnlyAfterFailures` says when a watch may give up, not that it does: connection errors
   of a watch are noticed only by a log statement under verbose logging; without it every failure
   resets the failure count, and nothing limits or delays the attempts.
6. `IntervalReconnects` and `SilenceReconnects` need verbose logging to be off: that log
   statement waits for a response that can no longer arrive when a timer ended the
   connection early; the watch then hangs, unnoticed by the health check. They also need the
   callback to return: the pods' callback looks up owners on the `Watcher`'s thread, without a
   timeout (`kubernetes.cc:635-645`). If the master falls silent during such a query, no timer's
   handler runs any more and `WatchMaster` stays in `join()`.
7. `EndsWithItsConnection` needs the timers to be off, which is not the default: a connection that
   a timer ended is still pending when the next iteration runs the same `io_service`, and refers to a
   `Watcher` that is gone. Its events then come among those of the next connection, or their pieces
   in the same parser, so that after a timer `CachesFollowMaster` claims nothing any more; of the
   service metadata only `LastWriterIsCurrent` is left.
8. `FailureHasACause` names what the end of a search is due to, and none of it is the pod's fault.
   A failed query for the kinds of an API version is cached as "no kinds", and a list that succeeds
   is kept for good, so that a kind which is served later stays unknown; the `std::string` that this
   leads to is not in `GetOwner`'s exception specification, which ends the process. An
   owner without a namespace, such as a node, is asked for in the pod's namespace
   (`kubernetes.cc:973-975`) and not found, although it exists.
9. An id that is used again (a docker container name) keeps its first resource, although `store.h`
   (90-92) promises a mapping "from each of the `resource_ids` to the `resource`". No run checks
   that as a property; what the code does instead is the theorem `ResourceMapIsStable`, and
   `KnownIdIsAnswered` relies on it.
10. `CopiedAsReturned` is about values that were not empty: an empty member may be assigned
    by another thread while the caller copies it.
11. `HandlerUsesLiveComponents` is about a single handler: a second SIGTERM within the tenth of a
    second in which the first one sleeps may be handled on another thread and use what main
    destroys. A SIGTERM before the server has been created ends the process with a fault; that same
    order is what keeps `NoStartAfterStop`. `ShutdownEnds` leaves out a SIGTERM that interrupts a
    thread inside `LogStream::write` (`logging.h:34-37`): the handler logs that the server
    stops (`api_server.cc:102`), waits for the mutex of the log and never gets to `std::exit`.
12. `AnsweredUnlessCutShort` leaves out a server that closes the connection within the headers:
    the futures then throw `broken_promise`, which is not among the exceptions that the docker
    reader catches or declares, so that it ends the process (`BrokenResponse` in `Readers`). It also leaves out the body promise of a request with a callback when an error
    comes before the end of the headers; a comment in `local_async_normal.hpp` (508-510) takes the
    promise to have been set by then.
13. `RequestEnds` leaves out, without a timer, a response that ends within the status message: the
    handler of that read ignores its error code and passes on the one of the read before, so the
    connection is read again and again.
14. `EntriesAreReported` leaves out what an entry that is always rejected holds back: the reports
    end with its request every time, so nothing behind it is ever sent, or purged.
15. `RoundIsComplete` leaves out nodes behind one that failed: the loop over nodes
    (`kubernetes.cc:549-553`) has no `try` of its own, unlike the loops over pods and containers, so
    that one bad node takes every node after it out of the round.
16. `StoppedUpdaterFinishes` is about threads that are out of their query: one in a query that is
    never answered does not see the stop, and the destructor joins it forever.
17. `RoundTrip` is about values that the generator accepts. `Serialize` ignores the status of every
    `yajl_gen_...` call (`json.cc:65`, `139`, `148`), so a string that is not UTF-8 or a number that is
    not finite leaves a hole, and in an object turns the names and values that follow around.

Also seen while modelling: a count limit of 0 limits nothing; commas between entries are not
counted towards the byte limit (`RequestWithinLimits` bounds the excess); a type that was never
collected is never flagged by the health check; an end of stream before the headers of a watch
response is noticed only by a timer; a token response of the metadata server that is not JSON
raises an exception that `SendMetadata` does not declare (`TokenMalformed`); on a machine without
instance data the instance reader always, and the docker reader at its first container, ends the
process (`InstanceQuery`, `NoInstance`), where the Kubernetes reader goes on without; an empty current
node throws a pointer that no clause for `ConfigurationValidationError` catches (`NoCurrentNode`); a
container that is removed without having been seen `Dead` keeps its entry for good.

## 5. Proofs

All theorems hold for any sets of ids, resources, types, times and payloads and any bounds,
under the named assumptions of the modules. Most of these say that the parameters have their
types and that `None` is not a value. The others are:

* no two resources have the same rank in the map's order (`Reporter`);
* there are finitely many services (`ServiceAssumption`);
* every result of a query has an id (`ReaderAssumption`), as the constructors of the results do
  (`docker.cc:144`, `kubernetes.cc:158`, `277`, `379`);
* an event's resources have the type their prefix says (`NamingAssumption`), and a Kubernetes
  uid belongs to one pod and is no pod's name, a docker id to one container
  (`KubernetesAssumption`), which is what Kubernetes promises. Without the second,
  `IdsResolveExactly` is false: `emplace` keeps the first owner of an id;
* every text has its reading (`JsonAssumption`, see above).

TLC evaluates them all on the instances of the runs, and has checked each inductive invariant
there before it was proved (`JsonInv`, whose quantifier over opening events is slow to evaluate, on
fewer texts).

* **Store** (`StoreInv`: types and `CollectionTimesCoverEntries`). The two are
  inductive together: that an update keeps the times above the entries needs that
  the times are numbers, that is, types.
  One lemma per operation; `RaisedTimeBounds` states what the raise guarantees.
  `ResourceMapStable` and `LastCollectionMonotone` are action properties that
  follow from the step lemmas `MappingsStay` and `TimesOnlyRise`.
* **Polling updater.** `UpdaterImplementsStore` shows that every step is a step of
  the store or leaves it alone, so the store's theorems carry over. `UpdaterInv`
  adds to the properties that the ids of the result at hand resolve before its
  metadata is stored (`CurrentIsResolvable`; without it `StoredIsResolvable` is not
  preserved by `UpdateMetadataCallback`) and that a stop is recorded only of a
  started updater (`NoStopBeforeStart`, without which `StartUpdater`, which locks
  the timer, would seem to lose a stop). `NoQueryAfterStop` follows: a new round
  needs a locked timer.
* **Readers.** `ReadersImplementUpdater` is the refinement step by step: each step of the readers
  is one of an updater that may be given any vector, or changes none of its variables. So the
  updater's properties hold with the readers too (`ReadersKeepUpdaterSafe`). `RoundIsComplete` is a
  statement about the end of a round, for all that neither changed nor failed and is no node behind
  one that failed (`Kept`), and needs its history: objects that exist have no id in
  common (`WorldInv`), so what is left of a list is never the same resource as something that
  lasts (`LastingInv`), so results appended later do not contradict earlier ones
  (`AnnouncedInv`: what lasts has its turn to come or its last result says the truth). Then, while
  the loop applies the vector, what it has passed is in the store (`AppliedInv`), and it sleeps only
  when it has passed everything (`SleepsAtTheEnd`).
* **Reporter.** `ReporterImplementsStore` as above. `ReporterInv` adds that what
  the loop has passed is accounted for, that the purge is reached only with
  nothing left to send, and that the counted size is that of an empty request when
  the request is empty (without which the first entry could exceed the limit).
  `PurgedWasReported` is an action property from `Accounted` and `PurgeAfterAll`.
* **API server.** `ApiImplementsStore` gives the covering times under this specification as well,
  and `ResourceMapStable`: mappings never change, which is what makes the reference that a lookup
  keeps safe. `ApiInv` adds that an id that resolved on arrival resolves to the same
  resource until the answer (`LookupInv`, from `MappingsStay`), that the health mutex is held
  exactly between the two steps of a check (`MutexInv`), that what was known on arrival still is
  (`ArrivalInv`) and that what the check has copied so far is not older (`CheckInv`).
  `HealthyMeansHealthy` needs all of the last three: each of the three reads of a check comes from
  a different moment.
* **Watch loop.** `WatchInv` adds that the failures counted are among the connections in a row
  without a response (`CountInv`, from which `GivesUpOnlyAfterFailures`), where in an iteration
  there is a connection and a thread (`IterationInv`), and that without timers nothing but the
  closing connection stops the `io_service` (`NoTimersInv`, from which `EndsWithItsConnection`).
* **Service metadata.** `ServiceInv` adds that a list that was built and not yet stored agrees with
  the half of the caches that only its own thread writes (`ListInv`, from which
  `LastWriterIsCurrent`) and that the events in flight bring the cache up to date (`StreamInv`): the
  last event on each service carries what the master has, and where there is none left the cache
  has it already. For an empty stream that is `CachesFollowMaster`. `StreamInv` is about watches of
  which no timer has left a connection behind; the events of such a connection break it.
* **Owner lookup.** `OwnerInv` adds that the past has all that exists and no uid ever moves to
  another path (`PastInv`), that cached owners have their uid and once existed (`CacheInv`), that
  the reference a search follows leads to something that once existed (`SearchInv`), and that the
  kinds of a version that was asked for are known, or were missing when its list was fetched, unless
  a query failed (`KnownInv`).
* **Pod metadata.** `PodInv` adds that an id resolves to a resource some event gives it to
  (`ResolveInv`; with `KubernetesAssumption` there is only one), that ids are registered before an
  entry is stored (`RegisteredInv`, `EntryInv`), and, because the results of a pod are stored
  one by one, that the containers passed so far have the pod's entry while every other pod still
  agrees with its containers (`ProgressInv`, `AgreeInv`).
* **Local connection.** `LocalInv` adds that the bytes gathered are those read behind the headers,
  however the reads were cut (`ContentInv`), that while the connection lives exactly the promises
  of the complete sections are set (`LiveInv`), and that after its end a promise is unset only for
  one of two causes (`EndedInv`). `LiveInv` is why no promise is set twice: a handler sets
  promises from its section on.
* **JSON parser.** For every text, every cut into chunks and any limits of `long long`. The stack
  is built from the front of a text, the reading is given from its end, so `EventsInOrder` says
  nothing about a value that is half parsed and is not inductive. `JsonInv` adds what every open
  context will be (`Rest`): its elements or fields so far, followed by the rest of the array or
  object that begins at the next event. Each context, with what follows, is the value that begins
  at the event that opened it (`Level`), the ones below wait for a value and end later
  (`Stacked`), and what was delivered, followed by the values from the outermost context on, are
  the values of the text (`Gathered`). No handler changes what a context will be (`RestAdvances`,
  `RestOpens`, `RestNamed`, `RestEnds`), which is what makes them right; a refused event leaves a
  context that will be no value whatever follows (`RestRefused`, `StackBottom`), so a syntax error
  never hides a value that was there. `EndingInv` ties the ending to the state it was decided in.
  No induction is needed, as a step handles one event and uses one equation of the reading. That
  repeated fields keep their first value rests on `Joined` being associative.
* **Life cycle.** For any number of updaters and of signals. `LifecycleInv` adds that the mutex
  is unlocked only by a handler that is past its work (`UnlockedByHandler`), that main destroys
  only with the mutex unlocked (`DestroyedAfterUnlock`), that the server comes into being after
  every updater has been started and before any handler gets past it (`ServerComesLast`), and
  that what main has passed has its thread (`StartedHaveThreads`). The first two give
  `HandlerUsesLiveComponents`: a component that is gone means an unlocked mutex, hence another
  handler at its end. The last two give `NoStartAfterStop`.
* **Environment and authorization.** `EnvironmentInv` adds to `CopiedAsReturned` that the
  member a thread is about to assign is empty and that a returned value is still there
  (`MembersAreStable`): then a member that is being assigned is none that was returned with a
  value. `OAuthInv` ties the expiration to the token in the cache, and the moment a report
  took the header to that token (`TakenInTime`): it had just arrived, or was not past its
  expiration less the slack. `SentWithValidToken` follows by arithmetic.

Only model-checked:

* liveness, which is out of reach of the prover: `StoppedUpdaterFinishes`, `EntriesAreReported`,
  `LoopStopIsHonoured`, `FailureIsReported`, `IntervalReconnects`, `SilenceReconnects`,
  `SearchEnds`, `RequestEnds`, `ShutdownEnds`, and the fairness that `UpdaterSpec` asks of the
  readers;
* `RoundTrip`: what the calls of `Serialize`, a recursive operator, write takes induction over
  values. By `ValuesComeInOrder` and `WholeTextsAreAccepted` it comes down to the
  grammar's reading of a text that `Serialize` wrote, without the parser.

## 6. Not modelled

Formatting, base64 and time conversion are sequential conversions that none of the
properties depends on; of logging, only its mutex is modelled, in `Lifecycle`. The dispatcher's string
matching selects a handler and is left out. The contents of requests and of metadata entries are
opaque. cpp-netlib, yajl, YAML and boost are external. Of the local HTTP client, chunked transfer
encoding and redirects are left out; of the JSON library, cloning, the typed getters, the bytes of a
text and the generator's limit of 128 levels. The SIGTERM handler calls functions that are not safe
in a signal handler. The mutex of the log, on which it may block, is in `Lifecycle`; the mutexes
inside the HTTP server and the C++ library, on which it may block as well, and a mutex
unlocked by a thread that does not hold it, whose outcome is not defined, are left out.

## 7. Plan

Done, in this order: the store and its proofs; the timer and the polling updater
and their proofs; the reporter and its proofs; the API server with the health
checker; the service metadata; the watch loop, the owner lookup, the pod metadata;
the environment and OAuth2 and their proofs; the readers; the local connection; the JSON
parser; the life cycle with the configuration, and its proofs; the proofs about the API server,
the local connection, the watch loop and the services, owners and pods, the readers, and the JSON
parser. Every safety property of the runs has a theorem, except for `RoundTrip`.

What an extension would take up next: the safety consequences of `UpdaterSpec` for the whole daemon
(that a stop that `Lifecycle` sends is the `NotifyStopUpdater` of `PollingUpdater`), and the chunked
transfer encoding of the local client.
