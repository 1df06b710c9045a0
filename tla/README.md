# Hanabi Telegram bot: a verification project

TLA+ modules of the game server and of the Telegram client of this repository,
TLC configurations that check them, and TLAPS proofs.  Paths are
relative to the repository's root, which the project calls `src/`.

## 1. The system

Two processes talk over TCP.  The **game server** (`hanabi_game/`) runs a thread
for each connection; the **Telegram client** (`tg_client/`) runs one coroutine for
each chat and opens one connection per chat.  Messages are protobufs with a
four-byte length in front (`common/`).

| Component | State | Operations | Talks to |
|---|---|---|---|
| Connection threads, `server.cpp` | the accepted socket | accept, greet, read `NewConnection`, dispatch | the client; the lobby |
| Lobby, `handle_client_helpers.cpp` | `sessions` (id -> `Session`), `sessions_mutex`; each thread's `session_id`, `Session&`, `Player&`, `player_socket` | `create_session`, `join_session`, `join_random_session` | sessions, games, clients |
| `Session`, `session.cpp` | `players`, `numPlayers`, `session_mutex` | join, broadcast, broadcast_status, getLeader, invalidate, move into a game, destruction | players' sockets |
| `Game`, `game.cpp`, `sockets_util.h` | hands, table, deck, pile, two kinds of tokens, current player | deal, display, turn, selectAction, playCard, discardCard, giveHint | players' sockets |
| `Deck`, `Card` | shuffled cards, next index | draw | the game |
| Socket helpers, `sockets.cpp` | none | framed send and read, unframed `send_`, `is_socket_connected` | TCP |
| Coroutine primitives, `telegram_client_coroutine.hpp` | continuation, `m_awaiter`, `e_awaiter`, `flag`, `queue_` | co_await, pushMessage, set, resume, destroy | both client threads |
| Client dialogue, `client_entry*.cpp`, `client_input_tasks.cpp` | where the coroutine is suspended; the pending `async_read` | ask for name, operation, session; leader's start; forwarding of InfoMessages; turns | the server; Telegram |
| `ChatSessions`, `telegram_client.cpp` | maps of coroutines and queues by chat | create, pass a message, delete | the coroutines |
| Keyboards, `loadenv.h`, build | none of interest | | |

What is hard about it:

* **Threads and references.**  Lobby threads keep references into the registry, into
  a session's vector and to sockets across unlocks, while others erase sessions and
  move the vector into a game.  Log lines read shared state without a lock.
* **Ids.**  A new session's id is `sessions.size()`, which is free only until
  something has been erased; `operator[]` creates sessions by accident.
* **Order of messages.**  The client reads "the answer to my request" as the next
  message on the socket, whatever was sent first.
* **Failure.**  `sendBytes` throws, most threads do not catch, and the one handler
  there is sends to the same sockets again.
* **Limits.**  Five players with hands of four, an empty deck, tokens at zero and at
  their maximum, the last fuse token.
* **Dialogue.**  A turn is a tree of prompts with loops and ways back; what was
  checked at the first prompt is paid for at the last.
* **Coroutines.**  Two threads resume the same coroutine; the handles to resume are
  never cleared.

What makes each component correct:

* Lobby: no session over its limit, the counters are true, a player is in one place,
  the leader is at index 0, a game that starts has players, ids are fresh (as far
  as they are), each ack reaches its client and comes first, no threads wait for each
  other, no mutex is destroyed while it is held, a leaderless session disappears.
* Game: full hands, no card lost or invented, tokens that balance, no turn without a
  fuse token, one move per turn, a leaver ends the game and nothing else, nothing
  read out of bounds, nothing but messages on the wire.
* Client: what the user writes is taken, a chat in the loop of turns has exactly one
  pending read, one thread at a time runs the coroutine, no handle that is resumed
  outlives its frame, a signal is seen, and consumed before the next, the user is
  prompted in turn, the long-poll thread comes back from every read.

## 2. Modules

| Module | Models | |
|---|---|---|
| `Lobby.tla` | `server.cpp`, `handle_client_helpers.cpp`, `session.cpp`, the construction and the end of a game | specification and properties |
| `LobbyProofs.tla` | | theorems about `Lobby` |
| `MCLobby.tla` | | instances for TLC |
| `Rooms.tla` | what the lobby promises | abstract specification |
| `RoomsProofs.tla` | | theorem: `Lobby` implements `Rooms` |
| `FreshProofs.tla` | | theorems about `Lobby` before the first erase, and about games |
| `Game.tla` | `game.cpp`, `deck.cpp`, `card.h`, `sockets_util.h` | specification and properties |
| `GameProofs.tla` | | theorems about `Game` |
| `MCGame.tla` | | instances for TLC |
| `Rules.tla` | a game without its dialogue | abstract specification |
| `RulesProofs.tla` | | theorems: `Game` implements `Rules`; EMPTY cards come last |
| `CardsProofs.tla` | | theorems about `Game`: where the cards are, one move per turn, no read out of bounds |
| `TgClient.tla` | `telegram_client.cpp`, `telegram_client_coroutine.hpp`, `client_entry*.cpp`, `client_input_tasks.cpp` | specification and properties |
| `TgClientProofs.tla` | | theorems about `TgClient` |
| `MCTgClient.tla` | | instance for TLC |

Operators named like `FullLate` or `DrawsAgain`, just before the operator they are a
variant of, are wrong versions of it: replacing the right one makes the
property listed beside them in `PROJECT.json` fail, which shows that the property can.

### Lobby

A connection's client, its thread and its `Player` share one identifier, and a
`Session` object is named after the thread that put it into the map.  `sessions`
maps ids to objects; `players`, `numPlayers` and `session_mutex` are those objects'
fields; `game` is the vector of the game a thread has built.  `session`,
`player_socket` and `session_id` are the threads' local references and variables,
which may outlive what they refer to.

A thread's step ends where another thread can get in: at a lock, an unlock, or an
access without a lock.  Where a session's mutex is taken under the registry's
(`NestingPCs`) the lock of the registry is a step of its own, `LockRegistry`, after which
the thread may have to wait with it: `CanLock` says when it need not.  A join holds both
mutexes over two steps more (`EnterJoin`, `EmplacePlayer`), since `Game`'s constructor
takes none and can meet it.  `Invalidate` takes the session's mutex alone and keeps it
while the players are told (`CloseSession`, which has the whole broadcast): meanwhile a
second leader of the session may erase it, mutex and all, and what the first then does
is a use of a destroyed object.  A critical section that takes the registry's mutex
alone is one step that needs it free.

`create_session` is `EmplaceSession` or `ReuseSession`, `LogCreated`, `SendCreateAck`,
the waiting loop (`RefuseStart`, `AcceptStart`, `LoseLeader`, `ReadStale`), then
`Invalidate`, `CloseSession`, `EraseQuit`, or `Announce`, `BuildGame`, `EraseStart`,
`StartGame`, `EndGame`.
`join_session` is `RefuseJoin` or `JoinSession`, `EmplacePlayer`, `SendJoinAck`,
`NotifySession` or `NotifyErased`; `join_random_session` differs in `JoinRandom` and
`NoRandomSession`, after which it creates.

`fault` says how the process has died: an exception out of a thread (`terminate`), a
failed assertion (`assert`), a destroyed object used (`dangling`, since the build turns
on the address sanitizer), a data race (`race`), a read out of bounds (`bounds`).
A step with such an outcome chooses among those the code can have, and nothing moves
afterwards.  All five are reachable, `bounds` with four clients.  A data race is recorded where it can be more than
an old or a new number: the vector or the map used while another thread changes it.  A send to
a client that has hung up may throw or not: it does once the peer's reset has come back.

`Leave` is the environment's: any client whose socket the server owns may hang up at
any time.  `SendStart` is `leaderTask` of the client, which waits for each answer.

### Game

`pc` is where `start()` stands; while it waits for an answer it is the prompt's name.
The prompts form the tree of `selectAction`, and an answer out of range changes nothing
and is not a step.  An answer may also be that of a player that has hung up since: what
is sent to it then may fail (`SendOutcomes`) or not.  The deck is the bag of undrawn
cards: `Draws` is any card that is left, or the EMPTY card.  `hands`, `table`,
`discardPile`, the tokens and `hintee` are the code's variables.

`MaxTurns` is the number of turns `start()` plays.  The code says `return; // only do 1
turn for now`, which is `MaxTurns = 1`; larger values run the loop that is written
around that line, and the theorems hold for all of them.

### Rooms and Rules

`Rooms` has no threads, locks or ids: clients enter a room at most once, while it is
open and has a place, and leave it together, into one game or out.  In `Lobby` a room
is a `Session` object and a game the vector a thread has built; `Settled` is who has
entered or been turned away, and a room is closed when its session has been erased.
Every step of a critical section, log line or send is a stutter.

`Rules` has no dialogue: a turn is one move, a move touches one hand, a hint is for
somebody else and changes no card, the turn passes on unless the game is won or lost.
`Phase` maps the place in `start()`, prompts included, to the phase of the turn.  What a
card is drawn as and where cards are is `Game`'s own business, checked by
`CardsAccounted`, `EmptyMeansDrawn` and `InBoundsWhileDeckLasts`.  These count: `InHands(k)`
and `InPile(k)` are the places where cards of kind `k` are, `Numbered` tells copies of a
kind apart by numbers, and sums are cardinalities of such sets.

### TgClient

One chat, since chats share nothing but the two threads.  `place` is where `clientEntry`
stands, the task it awaits included, and `by` the thread that runs it: the long-poll
thread that hands over messages and blocks in `readBytes`, or the io thread that runs
the handler of the pending read and resumes the coroutine through `set`.  `queue`,
`m_awaiter`, `e_awaiter` and `flag` are the primitives' fields; `m_awaiter` is `"task"`
while it holds the handle of `waitUntilStartCommand`, whose frame is gone when that
task has ended.  `reads`, `taken` and `handler` are the pending `async_read`s and what
the io thread is in the middle of.

* A resumption does not know what it was for: `Resume` lets the await at which the frame
  is suspended take what it waits for, from whichever thread and primitive it comes.
* A message is read in two parts, by a handler (`TakeHeader`, `RunHandler`) and by
  `readBytes` (`ReadLength`, `ReadBody`).  `taken` says who has the length of the first
  message while its body is still in the stream; another reader then takes the body
  for a length, and the stream is `"torn"`.  The io thread is lost to that, to what it
  parses or to bytes that never come; the long-poll thread blocks in its own read
  (`place = "garbage"`), unless the bytes suffice and the task fails on them, or the
  connection is closed.
* An ack parsed as an `InfoMessage`, or the other way round, has an empty text, which
  Telegram refuses: `sendMessage` throws.  In a coroutine `Promise::unhandled_exception`
  drops the exception and the caller takes the task for finished (`MisreadAck`, and
  `LeaderTaskFails` for the one task after which `clientEntry` goes on); in a handler it
  ends the io thread (`handler = "dead"`).
* The prompt for an action is sent (`"prompted"`) before the coroutine looks at the queue
  (`CheckQueue`) and before it stores its handle and suspends (`SuspendOnAction`): the
  io thread runs it all that time and the user can answer.  The same holds between
  the flag of the event and its handle (`CheckSignal`, `SuspendOnEvent`).
* `/quit` destroys the frame with socket, event and queue.  A waiting read is aborted
  and its handler does no harm; one that has its header goes on (`"orphan"`) and uses
  what is gone.
* `server` is the other end of the stream: it stands for the connection's thread in
  `Lobby` and then `Game`, with what it may send next (`RequestReplies`, `StartReplies`,
  `TurnQuery`), informing from other threads, and hanging up.  The one turn that `start()` plays is
  player 0's, the leader's (`TurnQuery`); after its query the server waits for an answer
  that the client does not send.  That a leader is entered in a
  session before its ack, so that an InfoMessage can come first, is `Lobby`'s
  `AckComesFirst`.  After a joiner has been told of a new session, other threads can
  reach it only once its session is registered (`creating`).
* A failed connect or greeting ends the new coroutine, and a text that is not `/start` at
  the leader's prompt repeats the prompt: both leave the state as it was and are no
  steps.

What the user has done is remembered: `uninvited` that it has written something no prompt
asked for, `hasty` that it has answered a prompt before the coroutine awaits the answer,
`quit` that it has sent `/quit`.  `fault` is as in `Lobby`; `"twice"` is a frame resumed while it runs, `"empty"` a
pop from an empty queue, `"assert"` the assertion in `set`.

## 3. Runs

| Run | Instance | What it shows |
|---|---|---|
| `lobby_full` | 3 threads, sessions of 2, ids asked for 0 and 1 | `Capacity`, `GameHasPlayers`, `FaultsNeedErase`, `NoCircularWait`, `MutexOutlivesHolder`, `ImplementsRooms` |
| `lobby_races` | 3 threads, sessions of 3 | `TypeOK`, `CountIsTrue`, `OnePlace`, `LeaderFirst`, `FreshUntilErase` |
| `lobby_live` | 2 threads, fair | `JoinerThreadsEnd`, `LeaderlessSessionsEnd` |
| `game_loop` | 2 players, hands of 2, 6 cards, 2 fuse tokens, 5 turns | `TypeOK`, `HandsFull`, `CardsAccounted`, `FusesLeft`, `TokenLedger`, `EmptyMeansDrawn`, `InBoundsWhileDeckLasts`, `ImplementsRules` |
| `game_turn` | 3 players, one turn, two may leave, fair | `OneMovePerTurn`, `LeaverEndsGame` |
| `tg_chat` | one chat, 4 InfoMessages, fair | `TypeOK`, `NoMessageWaits`, `SubscribedInLoop`, `PatientUserIsSafe`, `PolitePromptedInTurn`, `SignalsConsumed`, `LongPollReturns`, `TurnReachesUser` |
| `lobby_ack_first` | 2 threads | refutes `AckComesFirst` |
| `lobby_create_ack` | 3 threads, sessions of 2 | refutes `CreateAckToCreator` |
| `game_leaver` | 2 players that may leave | refutes `ServerSurvives` |
| `game_four` | 4 players | refutes `DisplayInBounds` |
| `tg_turn` | one chat, 2 InfoMessages | refutes `PromptedInTurn` |
| `tg_answer` | the same | refutes `AnswersAreSafe` |

**Bounds.**  Three threads are what the lobby's races need: one that leads a session, one
that works on the same session, and one whose session is erased or whose id is
reused.  Sessions of 2 make "full" happen with three threads; sessions of 3 let all
of them share one.  Ids 0 and 1 are those that can be registered in the first two
places; asking for an id that is not registered happens with both.  The fair run
has two threads, enough for a leader and a joiner; the temporal check of three takes
too long.  The unbounded counterparts of the safety properties are proved (below).

In `game_loop` six cards and four in hand make the deck run out in two draws, so the
EMPTY card is drawn, discarded and played; blue tokens start at 0 so that the check
at the start of a hint, the first token from a discard and the token of a completed
stack (at and below the limit) all occur within five turns; two fuse tokens allow a
misplay with and without an end.  Five cards per hand, five numbers and eight tokens
change none of the comparisons.  `game_turn` needs three players so that a player
can leave who is neither the current one nor the one hinted.  Clients in the lobby
runs and colours in `game_loop` are interchangeable, hence the symmetry; the temporal
runs do not use it.

In `tg_chat` the user's messages are not bounded (the queue stays short by itself, which
`TypeOK` and `NoMessageWaits` are about); `MaxInfos` bounds the InfoMessages of a
connection.  Four suffice for one before an ack, one in each of two reads under way (the
resubscribed one after a cancel, and the task's own), and one behind the start.  The
server asks once, since it then waits for an answer.

**Fairness.**  `FairSpec` of the lobby is weak fairness of each thread's own steps: the
operating system schedules every runnable thread, and critical sections are finite.
Weak fairness is enough for the mutexes because each thread takes them a bounded
number of times; nothing is assumed of clients, which need not send, start or hang
up, nor of the end of a game.  `FairSpec` of the game is weak fairness of the server's
steps; a player need not answer.  `FairSpec` of the client is weak fairness of the
coroutine's reads and turns and of the handlers (both threads loop for ever and are
scheduled), and of the server's replies to a random join, which `JoinerThreadsEnd`
justifies: such a thread ends, or leads a session and has sent the ack of that; the user,
the other players and the start of a game are under no obligation.

**Deadlock** is checked in every run: `Finished` stutters only when every thread has
returned (or the game is done) or the process has died.  The client never stops, except
when the io thread has died of an ack or of bytes that it took from the long-poll
thread (`Hung`).

What the six refutations say, in short:

* `AckComesFirst`: a creator is in the map, and a joiner in its session, before its ack is
  sent, so "has joined" or "Game started!" can be the first thing the client reads and
  parses as the ack.
* `CreateAckToCreator`: with two sessions registered and the first erased, the next
  creation takes the second one's id; its creator's socket is closed and the other
  leader gets the ack.
* `ServerSurvives`: the exception handler of `start()` broadcasts to the player whose
  loss it handles.
* `DisplayInBounds`: four players hold four cards and five are printed.
* `PromptedInTurn`: `m_awaiter` is never cleared, so a chat message resumes the coroutine
  where it waits for the signal of its turn.  `PolitePromptedInTurn` is what is left: it
  takes a message that no prompt asked for.
* `AnswersAreSafe`: the leader can answer the prompt for an action before the coroutine
  awaits it, and the message resumes a frame that is gone.

What else does not hold of the client is written into the properties that do, each of
which fails without its exception:

* `PatientUserIsSafe`: a user that answers when it is waited for and writes nothing else
  but `/quit` is safe, unless that meets a handler that has its length, which goes on
  with a destroyed socket, or the io thread while it runs the coroutine.
* `SubscribedInLoop`: "all execution traces that lead to here have the socket subscribing" is
  true of joiners, and of a leader that no InfoMessage has reached before it starts.
  Otherwise `leaderTask` may take the InfoMessage for its ack, fail, and lead to the loop
  without a read (`LeaderTaskFails`), or a handler that subscribes late leaves it two.
* `LongPollReturns`: "cancel the async read" misses a handler in the middle of an
  InfoMessage; it subscribes again and takes the ack of the start, for which the
  long-poll thread then waits for ever.  The mutant shows what the cancel is good for:
  without it the same happens with no InfoMessage at all.
* `TurnReachesUser`: the query handled between the look at the flag and the wait is not
  seen, and the server asks once.

## 4. Proofs

`tlapm` checks every theorem for all values of the constants, from `LobbyAssumption`
(finitely many clients, a limit of at least one, ids that are naturals) and
`GameAssumption` (at least two players, finitely many colours, EMPTY none of them, at
least one number, fuse token and turn).

Lobby (`LobbyProofs.tla`).  A step is either *quiet*, leaving registry, vectors, counters
and mutexes alone, or one of nine *loud* ones (`StepKinds`); the invariants about those
need a case for each loud step and one for all the quiet ones.

* `TypeCorrect`: `TypeOK` is not inductive: an action that dereferences `session[c]` needs
  to know that somebody is there.  `RefsBound` says so for every place in the code.
* `CapacityHolds`: from `CapacityInv`, which bounds a vector by its counter and the counter by
  the limit, and adds that a join past its check holds the registry's mutex and still has
  room when it appends.
* `CountHolds`: `CountInv` adds that a thread that has not put a session into the map has no
  players in the object of its name, and that nobody is joining such an object.
* `OnePlaceHolds`: `PlaceInv` adds that a client whose `Player` has not been moved into a vector
  is in none, and that only threads with a game have players in `game`.
* `LeaderFirstHolds`: `RegistryInv` says that no two ids name one object, that objects out of the
  map have no players, and that a leading thread's id still names the session its
  reference lies in; `LeaderInv` adds that a join past its check appends to a vector that
  is not empty, unless the session's game has just taken the vector (the window that
  `LeaderFirst` excepts).
* `NoCircularWaitHolds`: `LockInv` says who can hold what: the registry's mutex only a thread
  where it needs a session's as well, a session's only a join that appends and keeps both,
  or the thread that is closing that session and keeps nothing else.  Neither of
  these waits; so of any set of threads one waits for nobody in the set, or holds the
  registry's mutex and waits for one that waits for nobody.  This is the safety half of
  `JoinerThreadsEnd`, for any number of clients.

Game (`GameProofs.tla`).  `GameInv` is `TypeOK`, the three properties and two additions: no
fuse token is spent before the first turn, and every spent one has put a card on
the pile (`MisplaysOnPile`).  Without the second, completing a stack could lift the
blue tokens above the supply plus the deliberate discards.

* `TypeCorrect`, `HandsStayFull`, `FuseCheckCatches`, `TokensBalance`.

Client (`TgClientProofs.tla`), from `TgClientAssumption` (`MaxInfos` is a natural).
`ChatInv` relates the place of the coroutine to everything else: which handle each
awaiter holds, who may be running, how many reads are pending, what may still be in the
stream at that place, and where the server's end then stands.  The six invariants of
`tg_chat` follow from it, `SubscribedInLoop` with the help of `LeaderInv`: without InfoMessages
the stream is empty at the leader's prompt, and the first message after its command is
the ack of that.

* `TypeCorrect`, `MessagesTaken`, `SubscribedInLoopHolds`, `PatientUsersSafe`,
  `SignalsAlwaysConsumed`, `PolitePrompts`.

Refinements.  `LobbyImplementsRooms` (`RoomsProofs.tla`) needs all invariants of the lobby
and one more, `SessionInv`: a thread that has not put its session into the map works on no
object of its own name.  Quiet steps stutter; each loud one has a lemma naming the step
of `Rooms` it is.  `GameImplementsRules` (`RulesProofs.tla`) needs `GameInv` and
`HinteeIsOther`: a hint that is being put together is for somebody else.
`EmptyCardsComeLast`, beside it, rests on two facts: a draw gives EMPTY only when nothing
is left, and nothing is put back into the deck.

Before and after the first erase (`FreshProofs.tla`).  `FreshInv` says what holds until a
session has been erased: the ids in use are 0 to n - 1, whoever leads leads its own
session, a joiner's id names the session it has picked, and a player stays in that session
or its game.  That nothing un-erases a session (`EraseIsForever`) comes from the refinement:
a closed room stays closed.  `GameHasPlayers` needs no such premise, only that one thread
leads the session; `SoleInv` follows that thread from its creation to its game
(`HasPlayers`), through the count at the start, which `CountInv` and `LeaderInv` make true.
`MutexOutlivesHolder` needs `LockInv` and, of a thread that closes its session, `HomeInv`: as
long as no id has been handed out twice, the session of a thread that leads is in the map
until that thread itself erases it, whatever other threads erase.

* `FreshUntilEraseHolds`, `AckToCreatorUntilErase` (the comment that `lobby_create_ack`
  refutes is true until something has been erased), `FaultsNeedEraseHolds`,
  `GameHasPlayersHolds`, `MutexOutlivesHolderHolds`.

Cards and moves (`CardsProofs.tla`).  A sum over hands, stacks or the deck is the cardinality
of a set of places or of numbered copies, so that no induction over data is needed: a step
changes such a set in one element, and `OnePlaceCount` says what that does to its size.
`PlaceCounts`, `DrawCounts` and `PileCounts` say it of a hand, the deck and the pile, and every
step is a deal, one of the five moves, or leaves all cards where they are (`StepKinds`).

* `CardsAccountedHolds`: `HandsInv` adds to `TypeOK` that no hand is longer than `cardsPerHand`
  (otherwise a dealt card has no place to be counted at) and that only the EMPTY card
  has no number (otherwise a card in a hand may be of no kind).  A misplay adds one to what is
  found of one kind, and one element to `Surplus`.
* `InBoundsHolds`: the property is not inductive, since nothing in it says how many cards are
  left.  `DeckLasts` counts them: those in the deck, those in hands and the turns played
  cover all cards.  `FaultReason` gives each read out of bounds its cause.
* `OneMoveHolds`: `OneTurn` says that until the move is made no card is stacked, discarded or
  hinted, wherever in the dialogue the player is, and that after it no prompt is reached.
* `GameIsSafe`: with hands as long as what `displayHands` prints, no leaver and a card in the
  deck for every turn but the last, the game neither reads out of bounds nor throws.  Two or
  three players, fifty cards and one turn satisfy these hypotheses; `game_four` drops the
  first and `game_leaver` the second, and both end the process.  `TurnsFit` bounds the turns
  by `MaxTurns`, and `LossReason` traces an exception to a player that has gone.

**Only model-checked**: the liveness properties `JoinerThreadsEnd`, `LeaderlessSessionsEnd`,
`LeaverEndsGame`, `LongPollReturns` and `TurnReachesUser`, which need fairness and are out of
the prover's reach.  Every safety property of a passing run is a theorem.

## 5. What is not modelled

* Client code that nothing calls: `getNameTask`, `getOperationTask`,
  `getSpecificSessionTask`, `joinSpecificSession`, `replyBytes`; the server's answers to
  them are in `Lobby` and `Game`.
* What is made of bytes that were taken for a length, wire formats, and that a turn's prompts
  are sent by `send_`, without a frame: the client does not read them yet.
* Several chats: they share the two threads, so a chat whose read never ends would stop
  the others; `LongPollReturns` is about that.
* Blocking sends: a socket's buffer is taken to have room.
* What a process does after undefined behaviour: the models stop there.
* Names, texts, logging, keyboards, the environment file.

## 6. Plan

In order; the first eight are done.

1. `Lobby`: the registry and its threads, the heart of the server and of its races.
2. `Game`: a game, its dialogue and its limits.
3. Proofs of types, capacity, counts, places and leaders, hands and tokens.
4. `Rooms` and `Rules`: abstract specifications, and proofs that `Lobby` and `Game`
   implement them, ids reused or not.
5. `TgClient`: the coroutine, its primitives, the two threads, `/quit` and the stream.
6. Proofs of the client's safety.
7. Proofs of `FreshUntilErase`, `FaultsNeedErase`, `GameHasPlayers` and `EmptyMeansDrawn`.
8. Proofs of `CardsAccounted`, `InBoundsWhileDeckLasts`, `OneMovePerTurn`, `NoCircularWait`
   and `MutexOutlivesHolder`, and of the conditions under which a game harms nobody (`GameIsSafe`).
9. Once the client answers queries (`replyBytes`): the answers in `TgClient`, and its `server`
   composed with `Game`'s prompts.
