# MahaSanook, verified

MahaSanook is an iOS app: chess on one device, against another person or
against an AI, with accounts, friends and a chat kept in Firebase. The rules of
chess and the AI come from the SwiftChess pod, which the repository carries in
source. This directory holds TLA+ models of the app's own logic, the TLC
configurations that check them, and proofs of the main results.

Paths below are relative to `src/MahaSanook/`; `App/` stands for
`MahaSanook/`, `Chess/` for `Pods/SwiftChess/SwiftChess/Source/`, `Database/` for
`Pods/FirebaseDatabase/FirebaseDatabase/Sources/`.

## The system

| part | code | state it keeps | operations |
|---|---|---|---|
| game session | `App/Main/Home/SwiftChess/GameViewController.swift`, `ChessViewController`, `PromotionSelectionViewController`, `BoardView`; `Chess/Game`, `Human`, `Player`, `AIPlayer` | board, game state, current player, selected square, castle buttons, alert, promotion in progress, AI timers and searches | touch, move, promote, castle, claim a win, stop, alert buttons, AI search |
| board rules | `Chess/Board`, `PieceMovement`, `Piece`, `BoardLocation`, `BoardStride` | 64 squares, `hasMoved`, en-passant marks | move, en passant, promotion, castling, check, mate, stalemate |
| AI raters | `Chess/AIConfiguration`, `BoardRater*`, `Opening` | none | rate a board |
| friend requests | `App/Main/Chats/AddFriendViewController`, `RequestViewController` | `friends/<u>/request`, `friends/<u>/friends`; per page: text, result, rows | search, submit, accept, remove |
| friend list | `App/Main/Chats/MessengerViewController` | arrays of names, pictures, uids | load, open a chat |
| accounts | `SignUpViewController`, `SetupUsernameViewController`, `SignInViewController`, `ProfileViewController` | `user/<name>`, `username/<uid>`, `friends/<name>` | sign up, set a name, sign in, sign out |
| profile update | `UpdateProfileViewController` | display name and picture in three places | upload, update |
| history | `GameViewController.showAlert`, `HomeViewController` | `game/<uid>/single` | record, list |
| chat | `ChatViewController` | `chats` | send, show |
| database connection | `Database/Core/FPersistentConnection.m`, `Core/Utilities/FIRRetryHelper.m`, `Realtime/FConnection.m` | connection state, interruptions, retry, token, listens, outstanding writes, held completions | connect, authenticate, restore, listen, put, interrupt, retry |

How they interact. A `Game` belongs to its `GameViewController` and is shared
with the blocks `AIPlayer.makeMoveAsync` runs on a background queue; results
come back as blocks on the main queue and as delegate calls. The promotion
chooser is a child controller with a callback. Pages of the app share nothing
but the database: a page reads a whole node with `observeSingleEvent`, changes
the copy in the callback, and writes it back with `updateChildValues`. There is
no transaction anywhere.

What is hard. Two threads write `game.board`; a promotion suspends a turn in a
callback; a timer asks the AI a second later; alerts may be dropped; a game may
be left with a search under way. In the database part every change is an
unprotected read-modify-write of a whole list, on data several people change,
and callbacks read the text field again. Pages load in chains of callbacks
while the table they fill is on the screen. Below them the database's client
keeps one connection for the app, over tokens that expire, networks that come
and go, and writes that may or may not have arrived. `PROJECT.json` lists these hazards at
their lines, with the properties that watch them.

## Modules

| module | models |
|---|---|
| `TurnGame` | what a game promises its players: they move in turn, a turn changes the board for one move and is completed once, a won game stays won |
| `GameSession` | one game on screen: every touch handler, alert, castle button, the chooser, the AI's timer, background search and report |
| `MCGameSession` | instances of `GameSession` with two search slots |
| `GameSessionProofs` | theorems about `GameSession` |
| `ChessBoardProofs` | theorems about `ChessBoard` |
| `Chess` | the rules of chess by files and ranks: what a board is to do |
| `ChessBoard` | SwiftChess's board: moves, check, mate, en passant, castling and promotion on 64 numbered squares, with the flags it keeps on the pieces |
| `MCChessBoard` | positions to start `ChessBoard` from |
| `Friends` | the two lists of every user, the pages that change them, and the queue of calls of every device |
| `Selection` | what is kept of a sequence, such as the calls that stay when a page or an app goes; used by `Friends`, `Accounts` and `FriendList` |
| `Arrangement` | the elements of a set as a list, in a given order; used by `Chat` and `History` |
| `SequenceProofs` | what `Selection` keeps of every sequence, how `Arrangement` lists every finite set, and induction over the natural numbers |
| `MCFriends` | instances of `Friends` with two and three users |
| `FriendsProofs` | theorems about `Friends` |
| `Accounts` | the account, the name and the profile of every person: sign-up, a name set later, sign-in, sign-out and profile update |
| `MCAccounts` | instances of `Accounts` with one and two people |
| `AccountsProofs` | theorems about `Accounts` |
| `Delivery` | what a device's writes come to at the database: in order, at least once, acknowledged in order |
| `Connection` | the database client's connection: retries, tokens, interruptions, losses, and what is sent again |
| `ConnectionProofs` | theorems about `Connection` |
| `FriendList` | the tables of friends and of requests: the chain of reads, the arrays behind the rows, and what a row acts on |
| `Chat` | a conversation: a window over everybody's messages, on a device whose connection is lost and restored |
| `History` | the history of won games: recorded by reading and writing it whole, and listed |
| `MCHistory` | an instance of `History` with three days |
| `ChatProofs` | theorems about `Chat` |
| `TableProofs` | theorems about the two tables, those of `History` and of `FriendList` |

`TurnGame`, `Chess` and `Delivery` are the abstract specifications, of a game's
control, of its moves, and of what becomes of writes. `GameSession` implements
the first, `Connection` the third; `ChessBoard` implements the second, and is instantiated with `GameSession` to check what the latter assumes
of a move. `Accounts` writes the lists that `Friends` works on, and
`FriendList` shows them. All modules of pages rely on what `Connection` shows:
the calls of a device are dealt with in order, and none is lost while the app
runs. `Chat`, which writes and observes at once, takes over its link.

Operators marked `Mutant:` in a comment are slips a programmer might make in
the definition that follows them. No specification uses them; they show that
each property can fail.

### GameSession

| TLA+ | code |
|---|---|
| `board` | `Game.board`, abstracted: per colour free/mated/stuck, who can castle now, who may ever castle, whose king is there |
| `state`, `currentPlayer` | `Game.state`, `Game.currentPlayer` |
| `selected`, `castleShown`, `alert`, `onScreen` | `GameViewController.selectedIndex`, the castle buttons, the presented alert, the navigation stack |
| `promotion`, `chooserMade` | the pawn waiting in the chooser; `promotionSelectionViewController # nil`, which keeps the screen alive |
| `timers` | `perform(#selector(tellAIToTakeGo), afterDelay: 1)` not fired yet |
| `task[t]` | one `makeMoveSync` block: queued, thinking, promoting its pawn on a copy, applied to the board, posted to the main queue |
| `recorded`, `warned`, `crash` | the winner written to the history, the "Wrong player took turn" message, the trap that ended the program |

`PlayerDidMakeMove` is `Game.playerDidMakeMove` with its delegate calls, and is
part of every action that reports a move. A search that started before others
changed the board carries that in `since`, and may then play a move that was
legal on another board, or trap. Lifetimes are modelled because the code relies
on them: `Player.game` is weak, the search holds the game only while it uses
it, and `self.game!` is read after that (`AIPlayer.swift:95`).

The rules of chess are abstracted to sets of boards a move may lead to
(`AfterMove`, `AfterCastle`, ...). A legal move takes no king, gives no
castling right back and does not leave its own side in check; everything else
about the next board is left open, so the results hold for any rules with
these three facts.

`CastleBesideChooser` says whether players use the part of a castle button that
sticks out from under the promotion chooser. `FALSE` is the normal case.

### Friends

| TLA+ | code |
|---|---|
| `request`, `friends` | `friends/<u>/request` and `friends/<u>/friends`, without the empty string in slot 0 |
| `queue[u]` | the `observeSingleEvent` and `updateChildValues` calls of u's device, in order |
| `app[u].page` | Messenger, Add Friend, or Request on top of the navigation stack |
| `app[u].enabled` | the search button, or the request table, takes touches |
| `app[u].text`, `.submit`, `.flag`, `.alert` | the text field, the Submit button, the local `flag` of the search, the "Success" alert |
| `app[u].rows` | `RequestViewController.request` |
| `asked`, `answered` | observations: who sent a request to whom, and who dealt with it |

An answer and its callback are one step. This loses nothing: a callback looks
at its own page, its answer, and nothing else of the database, so whatever the
same device did in between can be placed before the answer; and its writes
wait in the queue in any case, which is where other people's writes come in
between. One person uses one device. The buttons that open a page are tapped
once. The reads Messenger makes for its own list change nothing and are left
out. A trap in a callback, and iOS stopping the app, lose the pending calls and
start the app again (`Restart`).

`Careful` says that people touch the screen only when what they started has
been answered, and submit the name they searched for. The code does not
enforce it (the search button is enabled again at once,
`AddFriendViewController.swift:158`; the text field always is), so results
that need it say so. A text retyped to one that `child` refuses (empty, or with
one of `.#$[]`) is left out.

### ChessBoard

| TLA+ | code |
|---|---|
| `board` | `Game.board.squares`: the occupied squares by `BoardLocation.index`, each with type, colour, `hasMoved` and `canBeTakenByEnPassant` (`enPassant`) |
| `turn`, `state` | `Game.currentPlayer`, `Game.state` |
| `CanPieceMove` | `PieceMovement.canPieceMove`, with one operator per movement class |
| `MovePiece`, `IsColorInCheck`, `IsColorInCheckMate`, `CanColorCastle`, ... | the functions of the same names in `Board` |
| `Move`, `Castle` | `Human.movePiece`, `AIPlayer.makeMoveSync`, `Human.performCastleMove`, each with `Game.playerDidMakeMove` |

Squares keep the code's numbering, where a step over the edge comes in on the
other side; loops over a stride are written as "some number of steps, all of
them on the board and all but the last over empty squares". Which move the AI
prefers is left open. `Chess` says the same in other words, with castling
rights and a passed square as state of their own, and the refinement reads
these off the flags.

### Accounts

| TLA+ | code |
|---|---|
| `auth[p]` | the Firebase Auth account of p: whether there is one, and its display name |
| `username[p]`, `user[n]`, `lists[n]` | `username/<uid>`, `user/<name>`, `friends/<name>` |
| `queue[p]` | the database calls of p's device, in order |
| `call[p]` | the call to Auth that is under way: `createUser` or a `commitChanges` |
| `app[p]` | the page on top, its fields, the alert, a picture that is uploading or picked, `userChild`, and whether the name's button works |

Calls to Auth are answered in any order with those to the database, and may
fail. As in `Friends`, an answer and its callback are one step. People wait for
what they have tapped; they do not wait for what a page loads by itself, and so
may tap Update before `userChild` is there: `child("")` then throws
(`UpdateProfileViewController.swift:105`, `FValidation.m:71`), and the app ends
in the callback, signed in, with the account changed and neither record written
(`UpdateTraps`). When an app ends, the writes it has sent may still arrive. A
picture's address is left out: it matters only that there is a new one.
Passwords and the formats of fields are left out. That the database takes
writes of nobody, as after an update's sign-out, is assumed: its rules are not
in the repository; that it answers reads of nobody is clear from the sign-up.

### Connection

| TLA+ | code |
|---|---|
| `conn`, `reasons`, `retry`, `force` | `connectionState`, `interruptReasons`, `FIRRetryHelper.scheduledRetry` with the kind of fetch its block will start, `forceAuthTokenRefresh` |
| `fetch`, `token` | the latest token fetch that is not answered (an earlier one's answer is ignored, `currentFetchTokenAttempt`), and whether there is an `authToken` |
| `realtime` | the `FConnection`: none, connecting, up |
| `listens`, `unacked` | `listens`, `unackedListensCount` |
| `outstanding`, `held`, `completed`, `issued` | `outstandingPuts`, `putsToAck`, the completions called, `putCounter` |
| `toServer`, `toClient` | messages under way; `requestCBHash` is emptied with them |
| `watched`, `applied`, `reached` | the server: queries it sends changes of, the last write it dealt with, and the latest |

Everything in the client runs on one dispatch queue, so that a callback is a
step. When a link is lost nothing more comes back, but the server may go on
with what it was sent until it hears of the next connection; so a write may be
applied twice, and the client cannot know. How long a retry waits is left out
(`RetryFires` may come at any time), as are transactions, writes for the time
of a disconnection and purging, which the app does not use. An interruption
that closes a connection and the `onDisconnect` it causes are one step, since
`FConnection.close` calls back at once.

### FriendList

| TLA+ | code |
|---|---|
| `listed` | `friend`, or `request` on the page of requests |
| `names`, `uids` | `nameFriend`, and `uidFriend` with `imgFriend` |
| `reads` | the page's reads, in order, each answered together with its callback |
| `touch` | `indicatorRunning`: the table takes touches |
| `reload`, `shown` | `reloadData` was called and the rows are not laid out yet; what they say |
| `trapped` | an index was out of range |

Both pages are instances of one module (`page`): the same chain of reads, once
or twice, with other arrays. A row is laid out when the screen is drawn
(`Layout`, `Appear`), from whatever the arrays hold then. The dictionary of
users comes in any order.

### Chat

| TLA+ | code |
|---|---|
| `chats`, `sender` | the messages in the database, and who made them |
| `pending`, `server`, `View` | `FViewCache`: the device's own writes, what it knows of the database, and the limited view of both |
| `messages` | `ChatViewController.messages`, by key |
| `up`, `watched`, `toServer`, `toClient` | the link, as in `Connection` |

`Window` stands for the ten of `queryLimited(toLast: 10)`. The observer holds
its page weakly and is never removed, so `observed` stays set when the page
closes. Not promised: a message sent before the window has arrived stands above
older ones; a message of another device that waited for its connection is
appended below newer ones; and what is not acknowledged when the app ends is
gone (nothing is kept on disk unless asked for).

### History

| TLA+ | code |
|---|---|
| `single` | `game/<uid>/single`, by its keys |
| `queue[d]` | the calls of a device: the read that records, the write of the whole map, the read that lists |
| `mode`, `wheel`, `table`, `play` | `HomeViewController.mode`, the indicator, and whether table and Play are shown |
| `rows` | `HomeViewController.game` in the order of the table |
| `Text` | `dateTime`: numbers with as many digits as they have, `x` between them and `z` after all |

A date is a sequence of numbers; the model gives month and day, which is enough
for texts to disagree with dates. Times are strictly later from win to win, so
two results in one second, which share a key, are left out.

## Runs

| run | shows | bounds |
|---|---|---|
| `game_vs_ai` | one search at a time and only in its turn, the right player takes the turn, traps only after leaving, an AI's turn always has a timer or a search, won stays won, refinement of `TurnGame`; an AI's turn ends, a game that was left is released | 2 search slots, 2 timers |
| `game_vs_person` | the recorded winner is the one on the board | the same |
| `friends_two_ask` | overwritten request lists: distinct, backed by the asker's own list, one-sided only for askers, friends only grow | 3 users: two ask the third, who may ask one back; one searches for herself; 2 million states |
| `friends_hurried` | careless people, unknown names and capitals, an app that is stopped: calls keep their row and page; pages take touches again | 2 users, 2 calls pending before the next tap |
| `chess_board` | the allowed moves, castling and verdicts are those of chess; refinement of `Chess`; what `GameSession` assumes of a move | eight positions, three moves from each (four near a mate, two from a new game); 8 350 states |
| `accounts` | a name leads back to whoever has it, wherever the writes are cut off; lists in use are not emptied; without a stop the display names agree; a user gets lists | one person, two names, an app that may be stopped; 150 000 states |
| `connection` | the client's assertions; offline lasts; when all is quiet both sides agree; each write is waiting, held or completed, once; refinement of `Delivery`; writes get through | one query, which may be refused; 2 writes, 2 listens, 2 troubles; 396 000 states |
| `friend_list` | rows are backed by the arrays and act on whom they name; a loaded table shows everybody once; tables take touches again | 3 people, 2 appearances, both pages; 24 000 states |
| `chat` | nothing shown twice, out of the friend's order, or missing of what the device sees; the window only moves on; what is sent arrives and is shown | a window of 2, 4 messages, 1 loss, 2 visits; 227 000 states |
| `history` | no result overwritten, the own games listed, newest first; the page settles | 2 devices, 3 days, 2 loads beyond the first; 760 000 states |

Why the bounds are enough. The board's abstraction is finite, so a session is
bounded only by search slots and timers: the invariant says there is one of
either, and two of each let a violation show. A lost update of a request list
needs two writers and one reader, which is three users; crossing requests need
two of them. `MaxList` and `MaxPending` bound what people would otherwise repeat
without end. A person's account touches nobody else's unless they want one name,
so one person is enough for `accounts`; two names let the second be set over the
first. A board is right or wrong move by move, and what is remembered from one
move to another is a right lost (three moves: away, any, back), a pawn passed
(two), or a rook promoted on a corner (two), so three moves from well-chosen
positions reach each. On a connection, two writes are the least that have an
order; two troubles let a link be lost while the previous loss is being
repaired, and offline meet a revoked token; with two queries, `{q, r}`, the
safety properties hold as well (2.8 million states). A list of friends is
loaded anew at each appearance, so the second is the first that meets arrays in
use. The chat's window of two has an older and a newer message, and four keys
push out both. Two devices and three games give every overlap of two
recordings, and a third result to lose by it; the last of September and the
first two days of October give both kinds of text.

The same model with other constants shows what the results above depend on. With
`CastleBesideChooser` a player also reports a move in the other one's turn
(`RightPlayerTakesTurn`). Without `Careful`, a name typed after the search is
added unchecked, the person's own included, and two callbacks that read
different names lose a friend. With `MayDie`, an app stopped between the two
writes of a submission leaves a request without its other half, and the next
submission doubles it; and a person who types on after a search may add the own
name. `SuccessIsSuccess` ("Add ... Success!",
`AddFriendViewController.swift:178`) fails when two people ask a third at once:
the second write of the list removes the first. `FriendsAreDistinct` ("Have been
added friend! Check your request!", `:127`) fails when two people search for
each other before either submits. `SearchFindsMove` ("This should never
happen", `Chess/AIPlayer.swift:182`) fails with `CastleBesideChooser`: the AI is
asked to move when it is mated.

`Connection` has two claims of this kind. `WritesComplete` ("The block to be
called after the write has been committed", `FIRDatabaseReference.h:97`) fails:
a write answered while a listen is not is held in `putsToAck`; if the link is
lost then, the count of listens is reset and `ackPuts` is not called until
another listen is answered. `RefusedTokenIsRefreshed` ("we will refresh the
token later on reconnect", `FPersistentConnection.m:625`) fails: the first
scheduled retry takes the flag with it, and a notification that the network is
reachable replaces that retry by one that does not force a refresh.

`FriendList` with `Careful` off lets people come back to the page while it still
loads, and a row may be drawn when the arrays are empty: the program traps
(`NeverTraps`). With `Doubles` (see `FriendsAreDistinct`) there are more rows
than names, and it traps too. With a user in `Nameless`, whose record has no
display name (`Accounts` leaves one when `commitChanges` failed and a name is
set later), names shift against user ids, and a row opens the chat with
somebody else. On the page of requests with more than one request a row may
accept somebody else than it names; `RowActsOnPersonShown` leaves that out by
the number of rows.

`History` loses a result when a game is won while another is being recorded:
on two devices, or on one that is offline for both. `ResultsAreKept` leaves that
out by `hurried`. `NewestFirst` holds for dates whose numbers have as many
digits; September the 30th is listed before October the 1st. In multiplayer
mode a page that appears shows an indicator that never stops, which is why
`PageSettles` is about single-player mode.

Three properties are conjunctions of named parts: `FriendList!RowsAreRight`,
`Chat!PageIsRight` and `History!ListsAreRight`. Each part can be broken by one of
the module's mutants.

Disagreements with what the program says of itself, each a run TLC must refute
with one property:

| run | the program says | TLC finds |
|---|---|---|
| `game_lost_king` | "there should always be a king for each color" (`Chess/Board.swift:221`) | the AI's king takes the waiting pawn and is turned into the chosen piece |
| `accounts_same_name` | "Error: Username does exists!" (`SignUpViewController.swift:71`) | two people sign up with one name at once, and the second takes it from the first |

## Fairness

`GameSession`: a pending timer fires, and each search's next step happens. Both
are promises of the run loop and the dispatch queues. Nothing is assumed of
the person. `Friends` and `Accounts`: the database deals with the first call of every
device; nothing is assumed of the people, nor of Auth. Weak fairness is enough: these steps stay
enabled until they are taken. `FriendList`, `History`: reads are answered, per
device, and the screen is drawn. `Connection`: something that goes on by itself
(a retry, a token, a message) happens while it can; one condition for all of them
is enough, since each brings the connection on. Losses and refusals are bounded,
which is the usual assumption that the network is stable in the end; going
offline is not, and `WritesGetThrough` is about devices that are not offline.
`Chat`: the device connects again, and messages arrive.

## Proofs

`GameSessionProofs` is checked by TLAPS for every number of searches and timers
and both modes.

- `TypeCorrect`: `TypeOK` always holds.
- `TurnNeverForgotten`: `AITurnIsPending` always holds. It is inductive with
  `TypeOK`: the only steps that make it the AI's turn set a timer, and a timer
  that fires starts a search.
- `SessionInvariant`: without castling beside the chooser, `SessionInv` always
  holds. It strengthens `OneSearchOnItsTurn` with why it is so: a promotion is
  part of the current, human, player's turn in a running game, nobody takes
  the waiting pawn, no search has been disturbed, the position a search looks
  at has a move for it, and after a person's win only the alert can be touched.
  Each conjunct is needed: e.g. without the alert clause the next castling move
  after a win would not be excluded.
- `OneSearchAtATime`, `TurnsAreRight`, `TrapsComeLate`: hence
  `OneSearchOnItsTurn`, `RightPlayerTakesTurn`, and `KingsExist` with
  `TrapsOnlyAfterLeaving`.
- `HistoryIsTrue`: `RecordAgreesWithBoard`. An alert over another one is dropped,
  so what is recorded depends on which was first. `WinIsTold` says how a person's
  win gets from the board to the history: while the game is on screen its alert
  is up and nothing is recorded; afterwards it is what was recorded.
- `WonStaysWon`: from the same invariant, `WonIsFinal`.
- `SessionPlaysInTurns`: a session implements `TurnGame`, where a turn is half
  done while a pawn waits in the chooser or a search's move is on the board and
  not yet reported.

They rest on the three constants' assumptions and on
`~CastleBesideChooser` where stated.

`ChessBoardProofs` is about boards of any position, not only the starts that
TLC plays from, and any number of moves. It assumes of the starts what
`setupForNewGame` provides and every game taken up between two turns has:
`StartsAreBoards`, a well-formed board, and `StartsAreFair`, that no pawn has just
passed another or waits to be promoted, that a king which counts as never moved is
at home, and that who is to move could not take the king. TLC evaluates both for
the starts of `chess_board`, a new game among them.

- `BoardsStayBoards`: `TypeOK` always holds. `BoardOK` is inductive as it
  stands, by one lemma for each thing that changes a board. `MoveKeepsBoard`
  (a move to a square without a king keeps it) needs that no pawn takes a king
  in passing, which is why `BoardOK` says that only pawns are flagged;
  `MovesSpareKings` discharges its premise for every piece; castling is two
  such moves to empty squares, and a promotion changes no king.
- `LostRightsStayLost`: `RightsOf(board)` only ever shrinks, which is what
  `GameSession!AfterMove` takes for granted of `rights`. `UnmovedStoodThere`
  is the heart of it: a piece that counts as never moved after a move has stood
  on its square before. A promoted rook is no exception, since it stands on the
  opponent's first row (`PromotionGivesNoRight`).
- `PlayersMoveByTheRules`, `CastlesAreByRight`, `GamesAreChess`: `MovesAreTheRules`,
  `CastlingIsByRight`, and the refinement of `Chess`, `IsChess`. The argument has four
  layers. First, geometry: a walk by strides over squares that are numbered
  through, with `canIncrement` asked at each step, is a line by columns and
  rows (`SlideIsLine`, `SevenSteps`), and what it finds free is what `Chess` asks
  for (`LineIsSeen`); offsets that do not wrap are the knight's and the king's
  moves. Second, pieces: what `CanPieceMove` allows is what `Chess` lets a piece
  reach (`MovesAreSeen`), `isColorInCheck`, which looks at the king as if it were
  a pawn, finds the attacked kings (`CheckIsSeen`), and `movePiece` leaves what
  `After` says (`MoveIsAfter`), with the pawn taken in passing gone. Third,
  castling (`CastlingIsSeen`): `canColorCastle` asks neither whose king and rook
  stand there nor what the squares on the king's way are attacked by, but
  moves the king there on a copy. An unmoved king in a king's place is of that
  colour, a rook of the other colour in the corner would give check along the empty
  row, and who attacks a square on the king's way does so with and without the
  king where it was, because nobody looks through a king that is not in check
  (`KingStepsAside`). Fourth, the games: an invariant, `IsGame`, is needed for
  all of this. In a running game the flagged pawn is the opponent's, has
  gone two ahead and left nothing behind it (else a flag and a passed square
  are not the same), and who is to move could not take the king (else a king
  could be "reached", which `NotAKing` forbids and the rules do not mention).
  `KingsAreAtHome` is for castling, and `NoPawnIsLeft` for promotion: the pawn
  that `getLocationsOfPromotablePawns` finds is the one that has moved.
- `GamesAreAsAssumed`: `MovesAreAsAssumed`, so that the theorems about
  `GameSession`, where boards are sets of facts, hold for the boards of
  `ChessBoard`. That who can castle also has a move (`CastlersCanMove`) is the
  part that is not plain: the king can go by one instead.

`ConnectionProofs` is about any set of queries and any number of writes, listens
and troubles.

- `TypeCorrect`: `TypeOK` always holds. It is inductive together with
  `MessagesOK`: a request under way names a write that was made, an answer one
  that the database has dealt with.
- `NoAssertionFails`, `InterruptionLasts`: `AssertionsHold` and
  `OfflineStaysOffline`, inductive together with "answers are under way only on
  a connection that is up".
- `WritesAreKept`: `EachWriteIsOnce`. An answer to a write that is no longer
  outstanding changes nothing, and an answered write has reached the database.
- `WritesAreDeliveredInOrder`: a connection implements `Delivery`. The invariant
  (`Known`) adds to the ones above that the login which restores the state is
  the first request on its link, and the only one (`LoginComesFirst`), so that
  no write is under way while the connection authenticates; and that the writes
  under way are in order, each way and from one to the other, that every smaller
  one is done or under way too, and that on a connected link every outstanding
  write is (`PutsAreInOrder`). Without the first part a restore could send a
  write twice on one link; without the last, one could be applied after a gap.
- `QuietIsInSync`: `QuietMeansInSync`. Its invariant (`InSync`, inductive
  relative to `Known`) says what each message under way still has to bring. For
  every query that is listened to on a connected link, the listen with its
  number is on its way and is the last that the database will hear of the query
  (`Pending`), or the database has dealt with it, and watches the query or has a
  refusal of that number on its way back (`Settled`); `unackedListensCount`
  is the number of listens and answers to listens under way; and every write
  that is done has been applied. Without the numbers, a refusal of an earlier
  listen would take a later one off, which is why `sendListen` compares its listen
  with the present one before it takes it off.

They rest on the constants' two assumptions.

`TableProofs` is about `History`, for any devices and any dates, and about
`FriendList`, for any people, lists of any length and any number of visits; it
extends both, whose names are therefore distinct.

- `ResultsStay`: `ResultsAreKept` always holds, for as long as nobody has won a game
  while a result was being recorded. `ResultsAreKept` is not inductive, since it
  says nothing of a result on its way. `OneAtATime` does: there is at most one,
  over all devices; until its history has been read, the database lacks that one
  result only; and then the history to be written is complete. No page that loads
  in between matters, because loads write nothing.
- `ListsAreTrue`: `ListsAreRight`. `ListsInv` adds to the above that whatever is
  stored or on its way has been won (`OnlyWins`), that a result on its
  way is all that is missing (`OneIsMissing`), and that a page that shows
  one's own games either has its load still ahead of it or lists all but one
  (`OwnAreSeen`): the load may have been answered before the one write that was under
  way. For `NewestFirst` the order of dates as texts is shown to be asymmetric and
  transitive (`TextUnfolds`, `PartsDiffer`, `Asymmetric`, `Transitive`), so that
  `Sorted` is defined and lists in this order (`ArrangedInOrder`), and to agree with
  the calendar where the numbers have as many digits (`LongerTexts`).
- `RowsStayRight`, `EverybodyIsShown`: `RowsAreRight` and `AllAreShown`, under `Usual`:
  people wait for the page (`Careful`), nobody is on a list twice (`~Doubles`) and
  everybody has a display name (`Nameless = {}`). None of the three can go; TLC's
  counterexamples are told above. The invariant is one `Stage` for each place a page can be at
  in its chain of reads, with the queue it has there and what the arrays hold:
  `Away` and `Unnamed` without one, `Asking` for the own name, `Listing`, `Requesting`, `Filling` the empty arrays,
  `Again` when Messenger is to append the same people a second time, `Ready`, and
  `Taking` while an accepted request is looked up. The heart is `Loaded`: the
  first rows of the arrays are the people on the list, each once, whatever was appended
  after them, because the first answer was appended to arrays emptied in the
  callback before; and the table has no more rows than the list. While the page is
  up nobody else removes from its list (`Current`), so that the row of a
  request is still a request when it is taken.

`ChatProofs` is about any window, any number of messages and visits and any
number of losses.

- `ViewOnlyMovesOn`: `ViewMovesOn`. One window is later than another (`Precedes`)
  if it has the other's messages, or enough newer ones to have passed them
  (`Passed`). What the device sees depends on messages still under way,
  so the invariant says what it will know after each of them (`Tells`): every
  such state of knowledge is later than the one before, and knows of the write
  that is being acknowledged, so that taking that write off the pending ones loses
  nothing. After the last one it knows what the database has (`Told`). This
  needs that on a connection that is up, the database hears of the listen before any
  write (`Listens`): otherwise a write could be acknowledged to a device that is not
  sent its message.
- `PageStaysRight`: `PageIsRight`. `Page` says that whatever is shown has been in
  the view, and that of the friend's messages before one that is shown, each
  is shown too or the view has passed it. What has left the view has been passed,
  and a window never returns to what it has passed. So nothing is appended a
  second time, and what the friend sent is appended after all that was sent before.

`FriendsProofs` is about any number of users, texts and pending calls, lists of
any length, and people who search for whom they like.

- `CallsKeepTheirPage`: `TypeOK`, careless people and stopped apps included. That
  calls stay well formed is not a matter of types: the second and the third
  read of the request page look up `request[index]` again, and find the same row only
  if nothing has loaded the rows since. `TypeInv` adds, for every device
  (`Sound`), that a call's row or text is still there (`Knows1`), that its page
  is, with the table disabled while a call for one of its rows is pending
  (`BelongsTo`), and in which order calls of each kind can be (`InOrder`).
- `FriendsAreKept`, for `Careful` people: `FriendsOnlyGrow`. A list of
  friends that is written extends the one stored (`MoreFriends`), because at most
  one edit is under way; this needs what a device's queue can look like at all
  (`IsStage`: one call of `Alone`, two of `Pairs`, or one triple). That an
  app may be stopped does not matter here.
- `NobodyAsksTwice`, `AskersAreBehindRequests`, `OneSideAsked`, for `Careful` people
  and `MayDie = {}`: `RequestsAreDistinct`, `RequestsAreBacked`,
  `OnlyAskersAreOneSided`. Requests are overwritten by other people's old copies, so
  that a list's history says nothing. `BackedInv` says it of every copy, stored, on its way
  or loaded on a page: it has nobody twice, and each of its people backs it, by
  the list stored, by a list sent or by the second half of a submission that
  waits (`Backs`). Who backs somebody goes on doing so; that is where a stopped
  app would break it. `AsksNew`, part of the invariant before, gives that nobody
  who backs asks again. With an app that may be stopped TLC finds each of the three
  violated with two users; without `Careful`, `RequestsAreDistinct`.

`AccountsProofs` is about any number of people, names and display names, and
apps that may be stopped.

- `AccountsAreTyped`: `TypeOK`, for all constants. `NamesInv` says what a page,
  a call to Auth or a queued call relies on (`PageFits`, `QueueFits`): a write
  under a uid is of a user who is there or whose write is ahead of it in the same
  queue; a callback that reads the own record finds one.
- `NamesAreFound`, `NamesAreKept`, `ListsAreKept`, `DisplaysDoAgree`, if no two people
  want the same name (`OneWants`): `NamesLeadBack`, `NamesStayTaken`,
  `ListsAreNotEmptied`, `DisplaysAgree`. The hypothesis cannot go: with it
  dropped, `accounts_same_name` is a counterexample to `NamesStayTaken`.
  `NewInv` is for the lists: a look for a free name never stands before a
  write that takes one (`LooksLast`), so that nobody takes a name twice.
  `AgreeInv` is for the display names: up to the three writes of an update, it says
  for every moment which of the pending writes and edits will make the records
  say what the account says (`Says`), that edits come last and in the order
  the page gives them (`Ordered`), and that a page that could start another
  update has none pending (`PageAgrees`). It leaves out those whose app has ended
  since they came, as `DisplaysAgree` does.

What the models share is written so that it can be reasoned about.
`AtPlaces` of `Selection`, of which `OfKind` (the calls that stay when a page or
an app goes) is an instance, is a selection from a sequence written out as a
recursive function. `SequenceProofs` shows by induction over the number of
places looked at that it is defined for every sequence, and that the result
is the chosen elements in their order (an injection that keeps the
order). `Arranged` of `Arrangement` puts at each place the element that has as many
before it as the place has; `ArrangedInOrder` shows that for every finite set
and every strict total order (`Orders`) this lists each element once, in order. The inductions are over sets of
numbers rather than predicates, and follow from well-foundedness.

Every invariant and every action property of the passing runs is stated by a
theorem, under the hypotheses named here. The refinements `PlaysInTurns`,
`IsChess` and `WritesAreDelivered` are theorems too.

Model-checked only are the eight liveness properties, since fairness and
ENABLED are beyond the provers here: `LeftGameIsReleased`, `AITurnEnds`,
`UsersGetLists`, `PagesWakeUp`, `TableWakesUp`, `PageSettles`, `WritesGetThrough`
and `MessagesGetThrough`; and the two claims that fail. The type invariants of
`GameSession` and `Connection`, and that kings stay when nobody castles beside
the chooser, are proved and not run; `NamesStayTaken` is proved under `OneWants` and
run, without it, as a claim that fails.

## Not modelled

The raters (any legal move may be chosen), saving and loading (the app never
does), opening books, view geometry, table cells and sign-in providers.

Nearly all of the repository's code is vendored. Of its 6 000 files 23 Swift
files are the app's, and 23 more are those of SwiftChess; its 690 000 lines of C
and C++ headers and sources are gRPC, BoringSSL, abseil, nanopb, leveldb and the
core of Firestore, which `Podfile` gets by way of FirebaseUI and the app never
calls. No state and no decision of the app passes through them, so they are left
out, and with them nearly every line there is. Of the libraries the app does stake its data on, the database
client, the connection is modelled (`Connection`), and so is the limited view
(`Chat`). Its sync tree, the server's rules, and persistence on disk, which the
app does not switch on, are not.

The pages assume of the database what `Connection` shows: one queue per device,
no reordering within it, and every call dealt with while the app runs.

## What is left

1. `Accounts` composed with `Friends`: a name taken by a second person while
   requests to it are under way.
2. The geometry of `BoardView`, whose touches may give a negative index.
