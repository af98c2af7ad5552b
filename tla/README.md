# Verification of Crystal Server

TLA+ models of the parts of Crystal Server in which order, concurrency and
failure decide correctness: the event loop, the key-value store, the saving of
players, the network connection, the sessions on it, and what players do with
each other while they come and go: parties, trades, the market, the bank and the
houses. TLC checks the models on small instances. TLAPS proves, for instances of
every size, the safety properties of all of them, and that the store is a
refinement of a plain map. Source paths below are relative to `src/`.

## The system

One process, three kinds of threads:

* the **dispatcher**, a thread of the pool that `Dispatcher::init` keeps for
  itself, runs every change of the game as an event
  (`game/scheduling/dispatcher.cpp`);
* the **network** thread is the main one, which after the start runs the
  handlers of one `asio::io_service` (`server/server.cpp`,
  `ServiceManager::run`);
* the other **pool** threads run parallel groups of events and detached tasks,
  among them database queries with a callback and asynchronous saves
  (`lib/thread/thread_pool.cpp`).

| Component | State | Operations | Talks to | What is hard | What makes it correct |
|---|---|---|---|---|---|
| Dispatcher | a queue of events and of new timers per thread; merged queues per group; the multiset of timers and its reference map; a flag and a condition variable | `addEvent`, `scheduleEvent`, `cycleEvent`, `stopEvent`; merge, run, wait | everything | appends during a merge; stops at any point of a timer's life; lost wake-ups | no event lost, repeated or run after its stop; every event taken up |
| Key-value store | a cache with an LRU list; tombstones; table `kv_store` | `set`, `get`, `remove`, `keys`, `saveAll` | database, save manager, players | eviction at the limit; a save that works from a copy; a failing statement; a crash | what was set is what is read; `saveAll` leaves nothing unsaved |
| Save manager | the time each player's save was scheduled; the pool's tasks | `savePlayer`, `scheduleAll`, `saveAll` | pool, database, players | tasks that skip each other; objects that die under a task; statements that fail | a load finds the newest state; a save asked for reaches the database |
| Connection | state, socket, message queue, one input buffer, timers | `send`, `close`, read and write handlers, `resumeWork` | dispatcher, protocol | two threads and a lock that is dropped in the middle; a close with messages queued | one writer, one reader, nothing sent lost to a polite close |
| Game protocol, waiting list | a protocol's player and `eventConnect`, a player's client, the dead players, two lists of names | first message, `login`, `connect`, `logout`, `release`, death, respawn, kick | connection, game, save manager | a replaced client's release against the new client's retry; deaths in between | one client per player, and none that nobody releases |
| Party | leader, members, invitations, on both sides | invite, join, revoke, pass, leave, disband | game, protocol | deaths, logouts and objects that go away | the two sides agree; everybody can leave |
| Trade | partner, item and state of each player; the table of traded items | request, accept, close; every move of an item or a player | game, items | what happens between offer and acceptance | one gets what was shown; nothing else changes hands |
| Market | the table of offers, results of the asynchronous check | create, cancel, accept, check, return | database tasks, save manager, players online, dead and offline | copies of offline players; stale results; a full inbox; saves and crashes | no item or money cloned or lost |
| Bank, guilds, houses | balances, the guild's members online, the items of a house | transfer, evict | market's players, save manager | copies, guilds that come and go, saves of one side | the same |
| Decay, spawns, zones | sets of items, spawn points, indices | start, stop, check | dispatcher | little: one thread | |
| Creatures, combat, items, map, scripting, player features | game data | game rules | game | little control | formulas and tables |

`PROJECT.json` lists every component with its sources and the reason when it is
not modelled, and under "hazards" what is hard to test, each at its line.

## Modules

| Module | Models | Instance | Proofs |
|---|---|---|---|
| `Dispatcher` | `dispatcher.cpp`, `dispatcher.hpp`, `task.cpp` | `MCDispatcher` | `DispatcherProofs` |
| `KVMap` | what the key-value library promises (abstract) | | |
| `KVStore` | `kv.cpp`, `kv_sql.cpp`, `DBInsert`, `executeWithinTransaction` | `MCKVStore` | `KVStoreProofs` |
| `SaveManager` | `save_manager.cpp`, `iologindata*.cpp`, players' life cycle | `MCSaveManager` | `SaveManagerProofs` |
| `Connection` | `connection.cpp`, `protocol.cpp` | `MCConnection` | `ConnectionProofs` |
| `WaitingList` | `waitlist.cpp`, as operators on its value | | `SessionProofs` |
| `Session` | `protocolgame.cpp`: logins and their ends; uses `WaitingList` | `MCSession` | `SessionProofs` |
| `Party` | `party.cpp` and its callers in `game.cpp` and `player.cpp` | `MCParty` | `PartyProofs` |
| `Trade` | the trade handlers of `game.cpp`, and the hooks in `player.cpp` | `MCTrade` | `TradeProofs` |
| `Market` | the market handlers of `game.cpp`, `iomarket.cpp`, `databasetasks.cpp` | | `BankProofs` |
| `Bank` | `bank.cpp`, `guild.cpp`, `house.cpp`, composed with `Market` | `MCBank` | `BankProofs` |

Definitions whose comment starts with "Mutant" are not part of any
specification. Each is a plausible bug in the definition that follows it, kept
to show that a property notices the bug.

### Dispatcher

`Loop` lists the steps of one turn of the loop in `Dispatcher::init`, and `step`
is the dispatcher's place in it. `MergeThread` is one iteration of
`__mergeEvents`, so an event can be added to a queue before or after its merge.
`ExecuteSerial` and `ExecuteParallel` take one event; what an event or a timer
may do is `Effect`: add an event, create a timer, stop one, or nothing.
`RunTimer` and `FinishTimer` are the two halves of an iteration of
`executeScheduledEvents`. `EndMerge`, `Decide`, `Sleep`, `TimeoutWake` are
`checkPendingTasks`, the test of the flag, the entry to `wait_for` and its
deadline; `Notify` sets the flag and reaches only a dispatcher that is asleep.

Times are relative to the cached clock, which needs no bound; lateness
saturates at `MaxLag`, because code compares a time only with "now".

* `OneHome`: every event is in exactly one queue, or handled, never both.
* `BatchOrder`: the swap in `__mergeEvents` reorders only between batches.
* `RefsExact`: `scheduledTasksRef` names exactly the queued timers that are not
  cancelled, so `stopEvent` finds every timer that could run and no id leaks.
* `StoppedNeverRuns`: after `stopEvent(k)` the function of `k` is never started.
* `EventuallyHandled`, `TimersTakenUp`: every event is run or expires; every
  queued timer is taken up, and a perpetual cycle event again and again.

### KVStore and KVMap

`Set`, `Get`, `ForcedGet` and `ListKeys` hold the store's mutex and are one step
each. `BeginSave` copies the cache, as `getStore()` does; `PrepareRow`,
`ExecuteBatch` and `EndSave` then work without the mutex. With `Async = FALSE`
the caller waits for the save; with `TRUE` (`toggleSaveAsync`) clients run
between its steps. With `DbFails` any statement or load may fail: an eviction
whose statement failed drops its entry, and `saveAll` reports success, as the
code does. `Crash` loses the cache and keeps the table.

`KVMap` has a value and a persisted copy per key, and no cache, eviction,
tombstone or batch. `ImplementsMap` is the refinement: the value of a key is
what a `get` would return now, and the persisted copy is the table's row. The
map admits what callers must live with: a crash, a `get` that fails, a victim of
an eviction that falls back to its row, and a `keys` whose query fails and which
then lists only what is cached (`loadPrefix` returns an empty list); it may miss
such keys only as are saved.

* `LruExact`: the LRU list names each cached key once and nothing else, so the
  iterators in `store_` stay valid. `CacheBounded`: never above `MAX_SIZE`.
* `OnlyWritesChangeValues`: only `set`, a forced `get` or a crash changes what a
  key reads as. It fails with `Async = TRUE` (below).

### SaveManager

What a player owns is a version number. A change gives the object the player's
next version; a save copies it, statement by statement, into two tables that
stand for the row of `players` and for all the tables that are emptied and
filled again. Objects are loaded, online, used as a copy of an offline or dead
player, at the death screen of a client, out of the game, or freed. `Die` saves and
leaves the object with its client; `Respawn` puts that object back into the game
as it was, also when a copy was changed and saved meanwhile, and so makes its
state the player's `latest` one again. `Take` is the pool task with its weak reference and
its test of `m_playerMap`; `Lock`, `Execute` and `Fail` are `doSavePlayer`.
Each statement commits by itself, because `executeWithinTransaction` runs its
body before `BEGIN`; the history variable `failed` remembers the saves that a
failing statement cut short.

* `LoadsNewest`: whoever loads a player gets in every table what the player last
  had in the game: nothing older, and nothing that a respawn has undone. What the
  respawn undoes is lost, which the property does not deny; `NothingLost` of
  `Bank` lists it.
* `NoUseAfterFree`: no thread works on a freed object.
* `NoSaveLost`: once nothing is queued or running for a player, the last state a
  save was asked for is in the database, and nothing newer than the object has,
  unless its statements failed or the player was loaded while an older object of
  it lived (`rushed`): the times by which tasks skip each other are kept per
  player, not per object, so the save of the older object may be skipped, and lost
  (below). `EventuallySaved` is its live form, with the same exceptions.

### Connection

The network thread's handlers are the actions that need `IoIdle`; `encoding` is
the time it spends in `onSendMessage` with the lock released. `Send`,
`Disconnect`, `Parse`, `ResumeWork` and `Release` are the dispatcher's. A
socket's failure is one event, `Reset`, after which every pending operation
fails. Checksum, encryption, compression and framing are reduced to what they
decide: a packet is accepted, skipped or refused.

* `SingleWriter`: a queue that is not empty has exactly one posted worker,
  encoding or write, and the message in hand stays at its front.
* `EncodedOnceInOrder`: encoding changes a message in place and numbers it, so
  it happens once per message, in the order of the sends.
* `BufferOwned`: `m_msg` belongs to one read or to one parse event, never both.
* `NeverDeaf`: an open connection is being read or parsed, with its timer armed.
* `FlushedBeforeClose`: after a close that is not forced the socket closes with
  messages unwritten only if the client is gone.
* `CloseEnds`: a closed connection has its protocol released, unless the dispatcher
  lags by more than the event's 30 seconds, and gives back its socket, unless its
  peer neither takes a write nor leaves. Nothing is assumed of the peer: the forced
  close of the write timeout returns early on a connection that is closed already
  (`connection.cpp:74`), so that socket stays, and the property says exactly that.

### Session and WaitingList

A client is a `ProtocolGame` with its `Connection`, which here is open, closed or
expired (`Connection` has the rest). A peer's close and the expiry are steps that
nothing forces. A character may have several `Player`
objects: one in the game, one dead, one that a client still holds. `queue` is
the dispatcher's queue of logins and releases; `eventConnect` is a scheduled
retry. `FirstMessage` runs on the network thread, and everything it has read may
be old when the login event comes: `EnterGame`, `ReplaceLater`, `ConnectNow` and
the refusals are the branches of `login`. `Think` is what `Player::onThink` does
about idleness: `idle` counts thinks without an action, and one too many removes
the player. `Release`, `Logout`, `Kick`, `Die` and `Respawn` end or change a session;
`Destroy` gives a client's name back when nothing refers to it any more.

The waiting list is a record of two sequences and `drift`, by which the counter
of `priorityWaitList` is too high: `clientLogin` erases every admitted player
through `waitList`, also one whose node is in the other list. Players that may always
log in and gamemasters (`Privileged`) pass the lists and the limit by, as the first
branch of `clientLogin` has it.

* `ClientHoldsPlayer`: a player's client holds that player, so that `release`
  and a logout find it.
* `LoginAnswered`: a login on a connection that stays open ends with a session.
* `NobodyLingers`: a player that no open connection controls leaves the game, or
  somebody comes to play it. `connect` asks only whether the `Connection` object
  still exists (`protocolgame.cpp:722`), so a player may get a client that is closed
  and was released already; only the check for idleness ends that. Characters
  that the check may spare (access players, VIPs that stay online, in training,
  where a logout is forbidden, or kept by a script) are in `MayIdle` and excepted:
  for them nothing ends it.
* `PlacesDiffer`, `RoomForThoseAhead`: no two waiting players are told one
  place, and who is let in leaves room for those before it, unless it is
  privileged. Both hold in spite of the drift, which only makes places worse than
  they are.
* `OneClient`: two open connections never control one character. It fails (below).

### Party

`parties` is a record of what parties and players know of each other, and each
function of `Party` is an operator that takes and returns it, so that calls of
one function by another are written as such: `leaveParty` passes the leadership,
erases and disbands. The leader is a weak pointer: `DestroyPlayer` leaves a party
without one. Whether the dead leave their party is the configuration's, an
initial choice. Scripts accept every join, leave and disband.

* `MembersHoldParty`, `InvitationsAgree`: the two sides agree.
* `NoEmptyParty`: no leader is left in a party with nobody in it or invited.
* `NobodyStranded`: if the dead leave their party, everybody in a party is online
  and its leader too. By default they do not leave: when a dead leader's client
  goes, the members are in a party that they can neither use nor leave, which
  the model reaches and the property excepts.
* `PartySurvives`: a party of three or more ends by no single step.

### Trade

Items lie in a tree: in a player's inventory, on a spot of the ground or in a
container. A trade is a state, a partner and an item per player, and the table
of traded items. `PlayerRequestTrade`, `AcceptFirst`, `AcceptSecond` and
`PlayerCloseTrade` are the handlers; `MoveItem`, `UseItem`, `Walk`, `Leave` are
what others do meanwhile, each with the hooks that close the trades it touches
(`Touches`). Room in an inventory is a choice of the exchange: `PlacesAfter` has
the outcomes of the tests and of the two moves. The second move's result is ignored
(`game.cpp:5177`), and it may fail for any item: a stack may find no slot of its
own, and a worn first item takes the capacity it grants along.

* `PartnersAgree`: a trade is one between two players in the game, each the
  other's partner, with an item on one side at least.
* `PromisedOnce`: the table is exact, and nothing is promised twice, neither
  itself nor in a container that is promised.
* `InReach`, `OfferUnchanged`: partners and items stay near; what is offered
  stays where it is, with the same contents.
* `GivenWhole`: an exchange that moves anything gives the first item to the partner
  with all that is in it, and not into what goes back; the second one goes whole
  or stays whole, and nothing else changes hands. That the exchange be mutual is
  not promised anywhere and not so. A player may also accept before its partner has
  offered anything, and the acceptance stays when the counter-offer comes: the
  code has it so, and the model with it.

### Market and Bank

A player has two records of what it owns: `memory`, its object, and `row`, its
rows. Online handlers change the object; handlers that find nobody in the game
load a copy, change it and save it. A dead player is not in `Game::players`, so
a handler gets a copy while the client still holds the object (`status`). An
offer holds the items or money that its creator gave; `QueryExpired` reads the
old offers on the pool and `ProcessExpired` returns them later, on the
dispatcher, by what was read.

`Bank` takes the actions of `Market` and adds transfers, a guild that is loaded
with the first member or copy and saved and dropped with the last member, and
the eviction of a house. `BothAs` and `SavedAs` say whose state is saved when. A
player has at most one object here; that a login may make a second one while the
first is dead is in `Session`.

An inbox has a limit of its own (`Inbox::queryAdd`), in spite of `FLAG_NOLIMIT`, and
may refuse any part of what a handler puts there (`Refuses`). Then a cancelled or
expired offer is gone with the items; an acceptance (`AcceptBuyFull`,
`AcceptSellFull`) has moved the money, returns before it reduces the offer, and has
saved the other side only if that is a copy (`HalfAs`); an eviction leaves the items
in the house.

* `NothingCloned`: there is never more than at the start. Three exceptions are
  counted: an old offer that was accepted in part after its row was read
  (`iomarket.cpp:173` returns what was read) and what a refused acceptance leaves in
  its offer (both in `cloned`); and what bank, house and refused acceptances had
  moved since the last save of the server, when it crashes (`unmade`): `~Bank`
  saves only the copy of an offline receiver, and an eviction saves the receivers
  but not the house.
* `NothingLost`: no step loses an item, or money beyond an offer's fee, but those
  `Loses` lists: a crash; the return of a dead player whose row was changed
  meanwhile; a refused offer, whose items `removeOfferItems` took from the stash
  already; an eviction with several items of one absent player, each put into a
  copy of its own; and a transfer to a guild that is not in the game. The items
  that an inbox refuses are counted (`refused`).
* `ExpiredLeave`: every old offer leaves the table.

## Runs

| Run | Result | Shows |
|---|---|---|
| `dispatcher_events` | pass | three events, two threads, every group: `TypeOK`, `OneHome`, `BatchOrder` |
| `dispatcher_timers` | pass | a perpetual and a stoppable timer beside an event: `RefsExact`, `StoppedNeverRuns`, `EventuallyHandled`, `TimersTakenUp` |
| `kv_map` | pass | with saves on the dispatcher, and statements that may fail, the store implements `KVMap`; `LruExact`, `CacheBounded` |
| `kv_lost_write` | violation | with saves on a pool thread an eviction can be overwritten by an older row |
| `save_sync` | pass | two players, one with two objects, saves on the dispatcher, deaths and respawns: `LoadsNewest` |
| `save_async` | pass | one player loaded twice with `toggleSaveAsync`, a pool thread beside the dispatcher, and failing statements: `NoUseAfterFree`, `NoSaveLost`, `EventuallySaved` |
| `connection` | pass | both kinds of port, every interleaving: all properties of `Connection` |
| `session` | pass | two clients and two characters, one premium, which the check for idleness may spare, on a server with one place: `ClientHoldsPlayer`, `PlacesDiffer`, `RoomForThoseAhead`, `LoginAnswered`, `NobodyLingers` |
| `session_replace` | violation | three clients, one character: two of them end up with a live client |
| `party` | pass | four players, two parties, both configurations: all properties of `Party` |
| `trade` | pass | three players, two containers and a stack, three spots: all properties of `Trade` |
| `market` | pass | a seller and a buyer in three scopes, market, bank and house, with up to two full inboxes: all properties of `Bank` |

Type invariants are checked by themselves where they say more than types
(`dispatcher_events`, `market`), as the first conjunct of an invariant in
`Connection`, `Session`, `Party` and `Trade`, and are proved for `KVStore` and
`SaveManager`.

### What the violations mean

* **Lost write.** `saveAll` writes a copy taken earlier. Needs
  `toggleSaveAsync` and an eviction during the save.
* **Two clients.** A replaced client is disconnected and the new login retries
  after a second. `connect` does not ask whether the player has got another
  client meanwhile: the second of two logins that wait takes the player over, and
  the first keeps its open connection and its `player` pointer, and can go on to
  move it.

More disagreements can be seen in the models and are no runs of their own; the
properties name them as exceptions.

* **Skipped for another.** A logout queues its save. Before the pool takes it a
  handler loads the player from the old rows, changes it and queues a save as well,
  whose time replaces the first one's. The pool skips the first task, "because
  another save has been scheduled" (`save_manager.cpp:101`), and drops the second
  one, whose object is gone: what the player did before the logout is in no table.
  Needs `toggleSaveAsync`. `NoSaveLost` and `EventuallySaved` except such a player.
* **Half a save.** A save that fails half way leaves its first statements
  committed, with the save's schedule erased already, so that a queued save of the
  same player gives up although none is scheduled.
* **Leakage.** The comment at `protocolgame.cpp:723` takes a released protocol's
  `Connection` for destroyed. A handler may hold it still: then `connect` makes the
  closed client the player's, and no release comes for it. `NobodyLingers` shows
  that the player leaves all the same, if the check for idleness does not spare it.
* **While dead.** The network thread refuses a login whose character is dead in
  another client ("You are already logged in.", `protocolgame.cpp:865`), but the
  login runs later. A death in between leaves the first object at its death screen,
  from which it can respawn beside the second.
* **Full inbox.** The comment at `game.cpp:9517` says that an error blocks the
  acceptance "to avoid clone of items" and that the player "will not clone".
  `playerAcceptMarketOffer` looks at an error only at its end (9676), so an inbox
  that refuses the items clones the money of a buy offer, or the items of a sell
  offer that were put in before. `NothingCloned` counts both.
* **Missed notify.** `checkPendingTasks` clears the flag after a thread's queue was
  merged, and `notify_one` reaches nobody before `wait_for` is entered: an event can
  then wait for the next timer, and with no timer for ever; the server registers
  cycle events at start, so in operation it is late and not lost, as
  `dispatcher_timers` shows.

### Bounds

Every bound is a constant with a comment in its module.

* Dispatcher: two threads suffice, since threads meet only in their queues;
  three events make a queue longer than the merged one, both branches of the
  swap. The proofs cover any number of threads and timers.
* KVStore: three keys and two cached entries make every access evict, with a
  tombstone, a value and a missing key at once; `kv_lost_write` needs one entry.
* SaveManager: two objects of one player are a session and the one that follows,
  or a dead one and a copy; the pool thread and the dispatcher can save the same
  player. `save_async` has one change and two tasks, enough for tasks that skip each
  other and a save that erases the time of one; the proofs are for any numbers.
* Connection: three messages make a queue that grows while its front is written,
  encoded and removed; three packets make a second parse.
* Session: the configuration `REPLACE_KICK_ON_LOGIN` is an initial choice; two
  clients replace each other, and two characters compete for one place, one with
  priority; one may have two objects, one of them dead. `MaxDrift = 1` is one
  admission through the wrong list. A think is counted before it removes the player
  (`IdleLimit = 1`), so that actions and connects can put it off. Nobody is
  privileged in the run, since a third character is out of reach together with
  the liveness properties: `ClientHoldsPlayer`, `PlacesDiffer` and
  `RoomForThoseAhead` are proved for any set of them. `session_replace` needs three clients for one character.
* Party: two parties and four players let a member of one be invited by the
  other and a party of three lose its leader.
* Trade: spots 0, 1 and 3 have pairs within one, within two and farther; items
  lie on spot 1, within and out of reach of the others (`Floor`); a bag and a box
  can be in each other; coins are the stack.
* Market: an offer of one or two items at price 1 and fee 1 is accepted whole
  or in part; two checks overlap; one crash. `Scopes` makes every behaviour use
  the market, the bank or the house, since together they exceed what can be
  enumerated; `Amounts` and `Treasury` let a guild be emptied; `MaxUnsaved`
  bounds what the bank moves between two saves of the server, which else could
  go on for ever. `MaxRefusals` allows two steps with a full inbox, which clone
  and lose in any amount up to an offer's. The proofs are for all scopes at once and
  any number of offers, checks, crashes and full inboxes.
* Symmetry is used over keys and values (`KVStore`), clients (`session_replace`),
  players and parties (`Party`) and players (`Trade`), and never in a run with a
  liveness property.

### Fairness

* `Dispatcher!FairSpec`: the dispatcher thread keeps running (`WF`), and a loop
  that turns for ever sees the wall clock advance (`SF` on a positive
  `UpdateTime`; weak fairness is not enough, since the action is enabled once
  per turn). Nothing is assumed of other threads or of spurious wake-ups.
* `SaveManager!FairSpec`: pool threads take their tasks, and a save that began
  continues. Handlers need not happen.
* `Connection!FairSpec`: the `io_service` runs its ready handlers, operations on
  a closed or reset socket complete, and the dispatcher runs its events. Nothing
  is assumed of the peer: it may take a write, stall or leave.
* `Session!FairSpec`: the dispatcher runs its events and the scheduled retries, and
  checks the creatures again and again, so that a player thinks (`Think`), but for
  those in `MayIdle`, for whom a think may do nothing. Neither an action of a
  player, nor a kick, nor a peer's close is assumed.
* `BankSpec`: the periodic check of offers is scheduled, and its result is
  processed.
* Deadlock is not checked for `SaveManager`, `Connection`, `Session` and `Party`:
  a server that has saved everything, a connection that has been destroyed, or
  names of clients, players or parties that are all held for ever (a party's
  dead members keep it, and it keeps them) leave nothing to do.

## Proofs

`DispatcherProofs`, for every number of threads, events and timers allowed by
`ThreadsAssumption`, `TimersAssumption` and `ClockAssumption`:

* `TypeCorrect`: `Spec => []TypeOK`, one lemma per action.
* `RefsExactHolds`: `Spec => []RefsExact`. `RefsExact` is not inductive: whether
  removing an id is right depends on where the timer is. `TimersInv` adds that
  a timer is in at most one queue (`OneQueue`), that every queued timer was
  created, and that a stopped timer which is still queued is cancelled;
  `RunningMerged` adds that the timer being run is still in `scheduledTasks`.
* `StoppedNeverRunsHolds`: an action property from the same invariant. A stopped
  timer that is taken up is queued, so cancelled, so its function is empty.

`QueuedAfterSchedule` and its companions say how each action changes the union
of the queues, so that the main proof never expands them.

Its second part, on the queues, under the same assumptions:

* `OneHomeHolds`: `Spec => []OneHome`, from `QueueInv`, whose part `Placed` says
  that the loop's and the threads' queues, taken as one family, hold every pending
  event in exactly one place. The lemmas on `Placed` say what appending an
  event, moving a queue's content into another and taking events out do to such a
  family; every action is one of these.
* `BatchOrderHolds`: `Spec => []BatchOrder`. `BatchOrder` is not inductive: a merge
  moves a whole queue, so it must be known that no later event of the same
  thread and group has left it before. `OrderInv` adds `InOrder`: a merged event is
  of the group it is merged into, and while an event waits in its thread's
  queue, every later one of that thread and group waits there too.

`KVStoreProofs`, for any keys, values and size of the cache:

* `TypeCorrect`, `LruExactHolds`, `CacheBoundedHolds`, from `CacheInv` and
  `SaveType`: a tombstone and a value are told apart, the list is exact, and a
  save works on keys that were cached when it began.
* `ImplementsMapHolds`, with `Async = FALSE` and any failures: every step of the
  store is one of `KVMap` or a stutter. `SaveInStep` is what makes the batches
  invisible: while a save runs nobody else does, so its copy is the cache, and
  writing a row that equals the cached value changes what no caller sees.

`SaveManagerProofs`, for any players, objects, pool threads and tables:

* `TypeCorrect`, `NoUseAfterFreeHolds`, from `IInv`: the types, `PlayersRowStays`
  (no statement deletes the row of `players`) and `OneSaverPerObject` (the
  `PlayerLock`), with and without `Async` and failures.
* `LoadsNewestHolds`, with `Async = FALSE` and no failing statement. `SyncInv`:
  the pool has nothing to do (`PoolIdle`), an object is loaded only when the
  player has no other that counts (`LoadsAlone`), the object that counts has the
  latest data (`Current`), and when there is none the tables do (`Settled`).
  `DeadKept` says of a dead player's object what makes its respawn harmless to
  these: it is the only one of its session, and has one version of everything.
* `NoSaveLostHolds`, with or without `Async` and failures. `SureInv` names, for an
  object that is `Calm` (its player was not loaded beside an older one), who will
  write what was asked for: a queued task that carries the time in `m_playerMap`
  (`Pending`), a thread that has the object left to save (`Waiting`), or a save that
  has not written the first table yet or wrote it late enough (`Covering`); or
  else nobody saves the object, and the tables have it or the last save failed.
  `Ahead` says that what an object holds is as new as what was asked and as the
  rows, and `Alone` that a calm object has no living sibling whose tasks could
  make the pool skip its own.

`ConnectionProofs`, for any number of messages and packets: `SingleWriterHolds`
from `WriteInv`, which says what the network thread is doing with the front of
the queue in each state, and `BufferOwnedHolds` and `NeverDeafHolds` from
`ReadInv`, which pairs every state of an open connection with the one activity
that owns the buffer.

Its second part, under the same assumption: `EncodedOnceInOrderHolds`
(with every type) and `FlushedBeforeCloseHolds`. `StreamInv` numbers the queue and
the history, and its part `Flow` says that while messages can flow what is written
and what is queued make up what was sent; it stops holding when a write fails,
which empties the queue and closes, so that nothing is sent after it. `DrainInv`
adds what a close that was not forced leaves: the sum stays exact until the peer
is gone, and the socket is given back with an empty queue only.

`PartyProofs`, for any players and parties: the five properties of `Party`. `Inv`
is their conjunction with the types, except that it says `Led` (everyone in a
party has a leader) where `NobodyStranded` says that the leader is online. The
functions of `Party` call one another on states in which that does not hold yet:
a party is empty between the leaving of a member and `disband`, say. So each
operator has a lemma about any grouping that is `Sound` (members agree with
pointers, invitations with invitations), which says by `Changed` that only its own
party changes, stays led and not empty or ends, and keeps going if it has
three players. The handlers follow from those lemmas alone. The calls that
`clearPartyInvitations` makes, one per party, touch disjoint parts of the state;
the operator states their common result.

`TradeProofs`, for any players and items, and finitely many containers:
`PartnersAgreeHolds`, from `TradesType /\ PartnersAgree /\ TableExact`; the table's
exactness is needed because closing a trade takes both items out of it. The other four,
`PromisedOnceAlways`, `InReachAlways`, `OfferUnchangedAlways` and
`GivenWholeAlways`, are about the tree of items. Their `Inv` adds

* `Rooted(place)`: going up from any item one comes out of the containers, so that
  none is inside itself. Without it `Holders` could go round for ever.
* `Apart`: no promised item is inside another. A handler refuses an item that is
  in a promised one, or that a promised one is in, but what keeps it so is that
  every later move closes the trades it would disturb.
* `WithAnother`: nobody trades with itself, or one exchange would move an item twice.

`Holders` is a recursive function that runs once per container. The lemmas `HoldersSteps`
to `HoldersSame` show by induction on the steps, and by counting the containers, that
it is the least set that has an item's place and the place of each container in
it. The effect of a move on the tree (`Moved`, `ContentsSame`, `ExchangeMoves`)
follows from that characterisation, and no later proof unfolds the recursion.

`SessionProofs`, for any players and objects and a finite number of clients:
`ClientHoldsPlayerHolds`. A client that took a second player would leave the first
one pointing to a client that holds another. `LoginInv` says why none does: a client
has at most one login under way, in the queue or as its scheduled connect, and
no object points to a client that has a login under way or has not connected.
`NoNewLogin` is what the releases, appended in any order, keep of the queue.

Its second part is about the waiting list: `PlacesDifferHolds` (with every type) and
`RoomForThoseAheadHolds`. `Lists` says that each list has players of its own kind,
once; `PlayersInv` adds it, and the types that the first part does without, to the
invariant. `CleanupList` is a recursive function, so the lemmas from `Recursion` to
`CleanupListLeaves` show by induction what it leaves: by `LeftOf` there is an
increasing function from the places of the new list to those of the old one, which
hits every entry that has not expired. Hence `AheadPlaces`: who was before a
player and has not expired is in a place before it still. `FirstPlaces` counts
them, and `RoomAhead` compares the count with the slot, by which
`clientLogin` admits. `drift` only makes slots of others than
premium players greater, and cancels out in a new one of them. The privileged are
admitted without a slot, and excepted.

`BankProofs`, for any finite set of players and any records, amounts, prices, fees,
offers, checks, crashes and full inboxes, in every scope (one that has the market,
the bank and the house together, too): `BankTypeCorrect`, `NothingIsCloned`, `NothingIsLost`,
all from `BankInvariant`. `NothingCloned` is not inductive, since it does not say
what a crash would leave. `IInv` is `Shape` and `Bounded` for items and money:

* `Bounded` bounds two sums. `Total` is what there is. `Top` takes of every
  player, the treasury and the house the larger of what the game and the database
  say; a crash makes it the total. A step may raise `Top` above the start by what
  bank, house and refused acceptances move (`unsaved`), and only by that: any other
  step of the market saves its player, and a copy of the other side, so what one
  has less the database does not have either. `SaveAll` brings `Top` down to `Total`.
* `RecordsOK`: the object of a dead player has no more than its row, since it was
  saved when the player died and a copy can only have received. Hence a dead
  player that comes back loses what it was given meanwhile, and clones nothing.
* `OffersOK`: a row that a check has read differs from the offer in its amount at
  most, and is no smaller (`Behind`). Hence `cloned` never shrinks: by `SumMatched`
  the offers that go held no more than the rows that are returned.
* `GuildOK`: a guild that is not in the game has no balance of its own, and a member
  that is online or dead is in `membersOnline`, so that neither of the two copies
  of the treasury is counted twice when one is dropped and read again.

Each action has a lemma that says by how much `Total` and `Top` change. `Steps`
are the three ways in which they may: a step gains what it clones or moves, a
save, or a crash. A refused acceptance gains what stays in its offer and moves what
it gave to the other side. `Lossless`, `Fails` and `Returns` tell the steps of the
market and the players apart, and give `NothingLost`.

The totals are sums (`SumFunction` of the community modules, which have no theorems
about it). The first two parts of the module derive what is needed from its
definition: `SumIsOne` shows that the recursion of `MapThenFoldSet` has a
solution, and `SumTake` that a sum does not depend on the order in which `CHOOSE`
takes the elements; then sums of parts, of two functions, of a function over a
matching and over a partition follow by an induction over the subsets of a finite
set.

Only model-checked: the liveness properties of all modules. The two runs that
expect a violation are counterexamples. Where a proof needs induction, which the
library's theorems state for an operator that no installed prover instantiates,
`Least` and its consequences in `TradeProofs`, `SessionProofs` and `BankProofs`
derive from well-foundedness what is needed, for a set instead of a predicate.

## Plan

1. The numbering of threads (`getThreadId`) and `asyncWait`'s partition.
2. Rent and auctions of houses, and the withdrawal and deposit of coins, over
   `Bank`'s records.
3. Decay: the map of expiry times against clones that carry its attributes.

## Not modelled

* Game rules (combat, conditions, monsters, items, weapons, wheel, quests): large
  numeric tables with little control; each handler is one event of the
  dispatcher and atomic with respect to the others. They are most of the source,
  which is why the models stand for a small share of its lines.
* Parsing, encoding, cryptography, compression, configuration, logging,
  metrics, schema migrations, Lua bindings: data without state that outlives
  the call.
* Data races inside one access (the hash maps written by two threads, a timer
  and a socket used without the lock in `resumeWork`, a player changed while
  a pool thread reads it): the models take each access as atomic and check the
  order of accesses.
* `DBInsert` splits a long row list by length; the model splits it anywhere.
* MySQL reconnection: a statement succeeds or fails.
* `KV::flush`, which would lock its mutex twice, has no caller.
* A `Player::spawn` that finds no place disconnects the client
  (`protocolgame.cpp:1037`); the models have only the client that leaves by itself.
  `playerCheckActivity` (`game/game.cpp:10733`) looks the dead player up among those
  in the game, where it is not, and so never kicks one.
* A crash inside a handler: an offer is inserted before its creator is saved
  (`game/game.cpp:9329`), and the models crash only between events.
* The market's fee is undefined for a total price under 1000, where `clamp` gets
  an upper bound below the lower one (`game/game.cpp:9271`); the model has a set
  of fees. Store coins are left out.
* The eviction of a house is saved within the handler, the default. With
  `toggleSaveAsync` the task would hold a weak reference to a copy that is
  dropped at once (`map/house/house.cpp:282`); `SaveManager` has such a task.
* A premium time that ends while a player waits makes `std::distance` walk from
  the begin of the wrong list (`waitlist.cpp:107`); in the model a player's
  status does not change.
* A `Party` object destroyed while `disband` goes on with its lists
  (`party.cpp:111`): the model ends the object in a step of its own.
* Shared experience, guild ranks and wars, houses' access lists, beds and
  auctions, cast viewers and the old protocol.
