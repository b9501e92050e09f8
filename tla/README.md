# TLA+ models of sqliteproxy

sqliteproxy serves many SQLite databases over the MySQL wire protocol. A
management HTTP API creates databases and hands out one username and password
for each; a MySQL connection authenticates with them and is bound to that
database. This directory holds TLA+ models of the program, the TLC
configurations that check them, and TLAPS proofs.

Source paths below are relative to the repository (`src/` in `PROJECT.json`).

## 1. The system

| component | state it keeps | operations | interacts with |
|---|---|---|---|
| Tenant store, `storage/` | `management.db` (catalog rows `creating`/`ready`), tenant files, `byName`, `byUser`, open pools, `createMu`, `mu`, `closed` | Open (reconcile, loadReady), Create, Import, Get, GetByUsername, List, Export, Query, Close | called by HTTP goroutines, handshakes, the proxy's Stop |
| Client sessions, `server/handler.go`, `server/session.go`, `server/infoschema.go` | per session: `Tx`, `InTransaction`, pinned `DB` connection | text queries, transactions, savepoints, prepared statements, information_schema, table reconstruction, Close | the tenant's pool, SQLite, the translator, the parser |
| Connection pool, `sqlite/pool.go` | up to `MaxOpenConns` SQLite connections | open, acquire, return, close | shared by all sessions of a tenant |
| Handshake, `server/auth.go` | `requestedDB`, `candidate`, `database` of one connection | UseDB, GetCredential, Finalize | called back by go-mysql; reads the store |
| Proxy lifecycle, `proxy.go` | `conns`, `stopping`, `wg`, the session table | Start, accept loop, handleConnection, Stop | owns all of the above |
| Table reconstruction, `handler.go:173` | a table and its copy `_tmp_<table>` | MODIFY COLUMN: read the columns, create, copy, drop, rename, each autocommitted | goes to the pool beside the session's own connection |
| Parser, `infoschema.go:15` | one parser object for all sessions | safeParseSQL | called by every session goroutine |
| Translator, `translator/` | none (compiled regular expressions) | Translate, TranslateAST | text in, text out |
| Management API, `management/` | none | routes, JSON | the store |
| Configuration, `cmd/`, client | none after start-up | flags, files, prompt | - |

What is hard here, and which properties answer it:

- **Provisioning is a multi-step write to two places** (a SQL catalog and the
  file system) by concurrent goroutines, each step of which can fail, while
  Close or the death of the process can come between any two. One bad catalog
  entry makes the next Open refuse *all* tenants. Correct means: credentials
  once returned stay good (`AcknowledgedKept`), the catalog can always be
  opened (`Reopenable`), nothing committed is removed (`NothingTakenBack`), the
  two maps agree (`MapsAgree`), no pool leaks (`PoolsAccounted`), and no error
  path keeps `createMu` (`RequestsReturn`).
- **A transaction is recorded three times**: in the session (`Tx`), in SQLite
  (on the pinned connection), and in what the client was told. Several
  statements change only one of the three. Correct means they agree between
  commands (`ClientViewMatches`), committed rows stay (`PromisedKept`), undone
  rows never return (`RevokedGone`), and a connection in the pool carries
  nothing over (`PooledConnectionsClean`, `ConnectionsArePrivate`). Together:
  transactions are all or nothing (`Transactional`).
- **A pool with a limit**, from which one session can want two connections
  (`RepliesUnlessExhausted`).
- **One parser object for everybody**, without a lock, whose result is emptied and
  filled again by the next call. Correct means that a session executes its own
  statements, in order (`OwnUnlessDisturbed`, and `OwnStatements`, which fails),
  and that an answer tells how far a text of several statements got
  (`AnswerTells`).
- **SQL rewritten as text**, type names in the random order of a Go map
  (`OrderIrrelevant`), words and escapes inside literals too (`LiteralKept` for
  ordinary strings, and `StringsStay` for all, which fails).
- **Stop runs against everything**: an accept in flight, handshakes, statements
  that never end, HTTP requests (`NoneMissed`, `OrderlyStop`, `StopReturns`,
  `ConnectionsEnd`), and the session table must follow the connections
  (`CleanedUp`, and `CleanedUpOnDisconnect`, which fails when two session ids clash).
- **A handshake in callbacks**, whose database name and username arrive
  separately (`BoundAsAuthenticated`).
- **MODIFY COLUMN replaces a table by a copy** without a transaction around it,
  while others insert, run the same command, or the process dies. Correct means
  that rows and table survive under one of two names (`RowsSurvive`,
  `NeverBothGone`), that no session removes the copy another one is about to
  rename (`CopyIsPrivate`), and that an OK means the column was modified
  (`ModifiedWhenAnswered`, which fails).

`PROJECT.json` lists every hazard at its line, the ones no property covers yet
included.

## 2. The modules

    Provisioning  <--refined by--  Store        MCStore        StoreProofs
    Transactions  <--refined by--  Sessions     MCSessions     SessionsProofs
    Service       <--refined by--  Proxy        MCProxy        ProxyProofs
                                   Reconstruct  MCReconstruct  ReconstructProofs
                                   Queries      MCQueries      QueriesProofs     \ Induction
                                   Translator   MCTranslator   TranslatorProofs  /
                                                                 LiteralProofs

The modules in the third column instantiate those in the second for TLC, the ones
in the fourth hold the proofs about them; `Induction` has lemmas that two of these
rest on, and `LiteralProofs` extends `TranslatorProofs`.

A client's text goes through `Queries` (parser, routing, batch loop), each of its
statements through `Translator`, and is then a command of `Sessions`, or one of
`Reconstruct`. `Proxy` makes and ends the sessions, `Store` the tenants.

### Provisioning and Store

`Provisioning` is what the storage layer promises: a database belongs to one
username for ever; credentials handed out work whenever the store is up, after
any number of restarts. Four actions: provision, announce, resume, withdraw.

`Store` is `storage/store.go`. Each request is a goroutine with a program
counter `pc` and the local variables `job`; `Create` and `Import` share their
steps, because the code does (`job.upload` tells them apart).

| variable | in the code |
|---|---|
| `catalog`, `files` | rows of `management.db`; the `.sqlite` files |
| `tx` | the open `*sql.Tx` on `s.mgmt` (SetMaxOpenConns(1)) and its row |
| `phase` | inside Open (`reconcile`, `load`), serving, inside Close, closed, down |
| `byName`, `byUser`, `pools` | `s.byName`, `s.byUser`, tenant pools that are open |
| `createMu`, `mgmtOpen` | `s.createMu`; whether `s.mgmt` can begin a transaction |
| `acked` | history: name and username returned to a caller |

The steps of a request are those of the code, in its order: lock, read
`closed`, INSERT, write the file, open and close a validation pool, UPDATE,
COMMIT, open the final pool, publish under `mu`. Each has its failing twin with
the clean-up that this error path runs: some remove the file, one does not
(`ValidateCloseFails`), the ones after COMMIT leave the row. `mu` is not a
variable: sections under it are single steps, except Close, which holds it over
several (`phase = "closing"`), and steps that need `mu` wait for that.

Abstractions: names and passwords are model values, where a ULID collision is
what the PRIMARY KEY and UNIQUE constraints refuse; a file is absent, garbage or
usable; `-wal` and `-shm` files go with their database file; the process may
die, the machine may not (no power loss, so `synchronous` does not matter).

### Transactions and Sessions

`Transactions` is what clients rely on: a set of durable rows, and for each client
whether a transaction is open and the rows pending in it. Rows become durable one
whole transaction at a time, or one by one outside transactions.

`Sessions` is one tenant: sessions over the slots of its pool. A command goes
from `Submit` through `Pin` (ensureConnection) or `TakeAux` (the second
connection of information_schema) to the handler's effect and the reply.
`pinned`, `inTx` and `stmt` are the `Session` and its prepared INSERT, `sqlTx`,
`writes`, `snapshot`, `depth` the SQLite connection, `committed` the database. `told`, `mine`, `mark` are what the
client may conclude from the replies, `promised` and `revoked` are history.

Commands: BEGIN, COMMIT, ROLLBACK, an INSERT, a SELECT, a SELECT from
information_schema, SAVEPOINT, RELEASE, ROLLBACK TO, PREPARE, EXECUTE and CLOSE of
an INSERT, and a BEGIN or COMMIT run as a prepared statement. A statement prepared
in a transaction belongs to the `sql.Tx` and is closed with it; one prepared
outside is executed on the connection, so within whatever transaction is open
there by then. `AdminQuery` is `Store.Query`: the management API's own connection,
which writes beside the sessions. Locks follow SQLite in WAL mode: one writer; a reader whose
snapshot is outdated cannot become a writer and is told so at once, a writer that
meets a lock only after the busy timeout.

Data is a set of rows, each written once by one INSERT: enough to tell whether
a row is pending, committed or undone, and on whose connection.

External parts are modelled from their use: database/sql (who owns a
connection, waiting for the pool), the SQLite driver (deferred BEGIN, no reset
of a returned connection), SQLite itself.

Where SQLite makes rows durable, at a COMMIT or an INSERT outside a transaction,
the reply is a step of its own (`Reply`). When the process dies before it, the
client knows neither that the rows are there nor that they are not: they are
neither `promised` nor `revoked`.

An error of SQLite undoes one statement (`Refuse`), as constraints and wrong names do,
or the whole transaction (`RefuseAll`), as a full disk, an I/O error and lack of
memory do, and the session's `Tx` stays in either case. `DiskFills` says whether the second
kind occurs: it does in `sessions_live` and in the two configurations `MCSessionsDisk*`.

`Transactional` maps `committed` to the durable rows, `told` and `mine` to the open
and pending ones: what the *replies* said is refined, not what the session or
SQLite hold.

### Queries

`Queries` is `HandleQuery`, `handleTranslated` and `safeParseSQL`. A query is a
sequence of statements of four kinds: answered by the handler (`own`),
information_schema (`schema`), for SQLite (`plain`), or refused by the parser
(`foreign`). `pc` is where the handler of each session is; `stmts` and `again` are
the slices it got from its parses, a capacity and a length.

The parser is external and modelled from its use and what its package does: a call
empties the parser's slice of statements (`ParseStart`), appends each statement as
soon as it is complete (`ParseStatement`), and returns the slice (`ParseEnd`).
`len` is the length of that slice, `cap` the capacity of its array, and `array` has
every array it ever had, one per capacity: append moves to a larger one when the
present one is full, and a slice returned earlier goes on pointing to its own.
`Capacity` is the set of sizes it goes through: 1 and 2 in the runs, any in the proofs.
Calls that overlap are a data race: each of them may from then on append a statement of
any of the texts, at any index it may have read before, and end with whatever it finds,
or with an error (`raced`). What a race can do beyond that, half a slice header or half
an interface value, is left out.

`disturbed` is history: sessions that called the parser together with another one, or
held a slice of its array when another one began a call. They are disturbed from the moment
that the call begins, since it may overwrite what they hold from its first statement on.

`HandleStmtPrepare` and `HandleStmtExecute` parse as well, and read only the kind of
the first statement. To others that is one more parse beside theirs, which the
queries of the model are already.

### Translator

`Translator` is the pipeline of `TranslateAST` and `Translate`, one action per pass
and one per entry of the type map, as one string literal and its statement pass
through it. `source` is how the literal is written: restored from the AST, or by a
client whose text is not parsed, with doubled or escaped quotes. A token stands
for every word treated like it: `BOOL` for types in upper case, `text` for one in lower
case, `newline` for blanks that start with a line break. `Reads` is how SQLite reads the result
(external).

The statement around the literal is a comma and a second literal, with nothing else
that a pass looks for: no CONCAT, FROM_UNIXTIME or DATE_FORMAT, no LIMIT, no index
clauses and no table options. These passes rewrite literals too (`'LIMIT 1, 2'` in a
SELECT is one), and are not modelled: the words of the model's strings are none of theirs.

`LiteralKept` says which strings are safe from the passes that are. `Ordinary` is a sufficient condition,
in terms of the string alone: no word that a pass looks for; if it was restored, no
backslash before a quote, a line break or the end; if it was not, no backslash at
all, single blanks, and no underscore and name before a quote or the end. Any number
of quotes is ordinary. `StringsStay` is the same without the condition, and fails.

### Service and Proxy

`Service` is what the proxy promises for each connection: it is served as one tenant
at most and never as another one, the pool connection it holds is its own until it
ends, and after it has ended, or an orderly stop, nothing of it is left and it is
never served again. Four actions: admit, hold, end, go down. `Serves` maps `bound`
to the tenant, `held` to what is held, the places behind `remove` to having ended,
and a Stop that did not give up on its connections to being down: how long ids live
in the session table, who closes what, and how Stop waits are Proxy's own affair.

`Proxy` is `proxy.go` with `server/auth.go` and the session table. Each TCP
connection has a place, `pc`: accepted, registered, its goroutine started,
handshake (`hello`, `auth`), commands, the deferred calls (`remove`, `close`,
`done`). Stop is the sequence `running`, `stopping` (flag set), `shutdown`
(listeners closed), `closing`, `waiting` (for `p.wg`), `release`, `stopped`.

The WaitGroup is the set of goroutines it counts, each counted once. The
session table maps a timestamp to whose `Session` it holds, and `held` says
which sessions have a pool connection pinned. A command is one step into
`command` and one out of it, which need never come. `Tenant` stands for a
database and its username, one-to-one by what `Store` shows; tenants appear
while the proxy runs, and the store's maps are emptied at the end of Stop.

A session id is what the clock shows, any of `SessionId`, and `SessionManager.Create`
overwrites what the table has for it. `clash` is history: the connections that had another one's
id beside it. `UniqueIds` assumes that there are none; only what is said to assume it does.
`Remove` closes, under the lock of the table, whatever `Session` the table has for its
id. When that is another connection's it may have to wait for a command on the
pinned connection, which is a guard of `Remove`; all other sections are single steps that wait for nothing.

go-mysql calls UseDB and GetCredential during the handshake; `auth.go` does not
rely on their order, and neither does the model, which allows both.

### Reconstruct

`Reconstruct` is `handleReconstructTable` of `server/handler.go` and the way a
statement takes to it through the translator. There is one table `t` and its
copy `tmp`; each is absent, or has a definition per column and a set of rows.
`pc` is the next statement of a session, `job` its local variables: what was
asked, the words of the marker, and the column definitions read by the PRAGMA.

`ModifyParsed` and `ModifyUnparsed` are the two ways in. A statement that the
parser accepts is restored with double-quoted names; the pattern for MODIFY
COLUMN knows backquotes only, so SQLite receives the statement and refuses it.
One that the parser refuses is translated as text and becomes the marker, whose
words the handler counts differently than the translator writes them (`Marker`).

Every statement is a step of its own: it has a connection of the pool to itself
and autocommits, and any of them may fail (locked, refused, no connection).
Only a failed copy cleans up, and the error of that clean-up is ignored
(`CopyFails`). Everybody else is `Insert` (answered OK once the row is in `t`),
`CreateAnew` (somebody finds `t` missing and creates it) and `Crash`. `acked`
and `gap` are history: rows whose INSERT was answered, and those among them that
came between a copy and the drop of the original. Those rows are lost by this
code, as any reader of the four statements can see; `RowsSurvive` is about all
the others.

### Faults

Some definitions are marked `fault`: a plausible bug beside the definition it
would replace (a missing check, a forgotten close, a swapped map). No
specification uses them. `PROJECT.json` names for each property of a passing run
the fault under which TLC finds the property violated.

## 3. What is checked

| run | instance | shows |
|---|---|---|
| `store` | 3 names, 2 usernames, 2 requests; 149 thousand states | types, the five safety properties, that Store implements Provisioning, and that every Create and Import returns |
| `sessions` | 2 sessions, 2 connections, 3 rows, one savepoint deep, symmetric; 1.3 million states | the six properties of transactions and connections, and that Sessions implements Transactions |
| `sessions_live` | 2 sessions, 2 connections, 2 rows, a disk that may be full; 253 thousand states | every command is answered, unless the pool is exhausted for good |
| `queries` | 2 sessions, texts of up to 2 statements, symmetric; 5.9 million states | own statements in order, answers that tell |
| `translator` | all strings of up to 4 of 6 tokens and 3 of 8, 4 kinds of statement, 3 sources; 212 thousand states | order of the type map, ordinary strings |
| `proxy` | 2 connections, 1 management request, 2 tenants, 2 ids that may clash, symmetric; 1.4 million states | bindings, session cleanup, Stop |
| `proxy_live` | 2 connections, 2 tenants, unique ids; 253 thousand states | that Proxy implements Service, and that Stop returns and ends connections |
| `reconstruct` | 2 sessions, 3 rows, 2 columns, 2 definitions, symmetric; 171 thousand states | rows and table survive a MODIFY COLUMN, copies are private |
| `rollback_to`, `savepoint_leak`, `session_ids`, `shared_parser` | the smallest that shows it | the four disagreements of section 5 |

Seven further configurations ask questions beside these, and can be run in the same
way (`tlc -config X.cfg M`, where `M` is the start of their name):

| configuration | shows |
|---|---|
| `MCSessionsDisk` | with a disk that may be full, `PromisedKept` and `PooledConnectionsClean` still hold (377 thousand states) |
| `MCSessionsDiskLost` | `RevokedGone` then fails |
| `MCProxyCleanup` | `CleanedUp` for a third connection beside two whose ids clash (2.7 million states) |
| `MCReconstructMarker` | `ModifiedWhenAnswered` fails |
| `MCTranslatorBackslash`, `MCTranslatorIntroducer`, `MCTranslatorWord` | `StringsStay` fails, in three ways |

Why these bounds are enough to be interesting:

- `createMu` serialises requests, so two are enough for one to hold it and one
  to wait, and three names let two databases exist while a third is being
  made; with two usernames the third then fails on the constraint, which is an
  error path. Nothing else bounds the store: it may be closed and reopened for
  ever.
- Two sessions over two connections wait for the pool (one of them may hold two
  for information_schema), take a connection another one used, and have another
  writer on the other connection. Three rows are one committed before, by a
  session or the management API, and two writers. A row
  is written once, so histories end after two INSERTs, but all other commands go
  on for ever. `MaxSavepoints` is one because the README uses one.
- Two connections are enough to have one in the accept loop while another one is
  served. Each dials once. Two tenants are the one of the credentials and another
  one to ask for. With two ids they may have one or two of them; in `MCProxyCleanup` a
  third connection stands beside two that share an id, and may get it after them.
- Two sessions suffice for one call of the parser inside, across or after another.
  Two statements are enough for the slice to be read after an answer to the first;
  the array then has two sizes, so both a fill in place and a move happen.
- Strings of four of the tokens that the three scans look at (quote, backslash, blank, line
  break, word, `_name`) have every neighbourhood of two that the scans tell apart, in
  the middle and at both ends of a literal. Three of the tokens that are rewritten by
  word are such a word with a neighbour on each side. (The theorem `LiteralsAreKept` has
  no such bound.)
- Two sessions suffice for one to meet the other's `_tmp_` table at any step.
  Three rows are one before a copy, one between copy and drop, one after. A row
  is inserted once; MODIFY COLUMN, failures and crashes go on for ever.

`sessions` leaves out the commands of the findings (`bareSavepoint`,
`rollbackTo`): with them `ClientViewMatches` and `PooledConnectionsClean` fail, as
the findings say. It leaves out `preparedBegin` for the reason given below them;
`sessions_live` has it. `sessions_live` has as many sessions as connections, so
that a pool exhausted for good is among its behaviours and
`RepliesUnlessExhausted` has to except it. `proxy_live` assumes `UniqueIds`: with
ids that clash, a session closed by another connection can pin a pool connection
that nobody gives back, which is the finding `session_ids`, and a connection that
ends may have to wait for a statement of another one. (It names each id after the connection
that gets it, which is all there is up to renaming; and all tenants exist.) `shared_parser`
restricts the schedule to calls of the parser that do not overlap, and `session_ids` to ids
that clash only between connections that have not heard from their clients yet:
what they find needs no more than that.

### Fairness

- A goroutine that can take a step takes it (weak fairness on the steps of
  requests, of commands, of connections, of the accept loop): the Go scheduler
  is preemptive.
- Strong fairness on acquiring `createMu`, and on a waiter getting a pool
  connection: `sync.Mutex` hands over to a waiter that starves, and database/sql
  serves its waiters in turn.
- A Close or Stop that has begun goes on, and time limits expire. Nobody has
  to call them.
- Clients need not send, read or leave. In `Proxy` neither a statement nor a
  management request has to end; in `Sessions` a statement that has its
  connection and meets no endless wait does, which SQLite's busy timeout bounds.

## 4. What is proved

Every invariant that a run checks, all three refinements, and the action property
`NothingTakenBack`, for all values of the constants that the assumptions admit.

| module | theorem | states |
|---|---|---|
| `StoreProofs` | `TypeCorrect` | `Spec => []TypeOK` |
| | `AcknowledgedIsKept` | `Spec => []AcknowledgedKept` |
| | `AlwaysReopenable` | `Spec => []Reopenable` |
| | `MapsAlwaysAgree` | `Spec => []MapsAgree` |
| | `PoolsAlwaysAccounted` | `Spec => []PoolsAccounted` |
| | `NothingIsTakenBack` | `Spec => NothingTakenBack` |
| | `StoreImplementsProvisioning` | `Spec => Provisions` |
| `SessionsProofs` | `TypeCorrect` | `Spec => []TypeOK` |
| | `PinsAreExclusive` | `Spec => []Exclusive` |
| | `PromisesAreKept` | `Orderly => (Spec => []PromisedKept)` |
| | `RevokedStaysGone` | `Orderly => (Spec => []RevokedGone)` |
| | `ClientsAreToldTheTruth` | `Orderly => (Spec => []ClientViewMatches)` |
| | `SessionsAreIsolated` | `Orderly => (Spec => []ConnectionsArePrivate)` |
| | `ConnectionsComeBackClean` | `Orderly => (Spec => []PooledConnectionsClean)` |
| | `SessionsImplementTransactions` | `Orderly => (Spec => Transactional)` |
| `ProxyProofs` | `TypeCorrect` | `Spec => []TypeOK` |
| | `BindingIsAuthentic` | `Spec => []BoundAsAuthenticated` |
| | `StopMissesNone` | `Spec => []NoneMissed` |
| | `StopIsOrderly` | `Spec => []OrderlyStop` |
| | `SessionsAreCleanedUp` | `Spec => []CleanedUp` |
| | `ProxyImplementsService` | `UniqueIds => (Spec => Serves)` |
| `ReconstructProofs` | `TypeCorrect` | `Spec => []TypeOK` |
| | `RowsAreKept` | `Spec => []RowsSurvive` |
| | `OneTableRemains` | `Spec => []NeverBothGone` |
| | `CopiesArePrivate` | `Spec => []CopyIsPrivate` |
| `QueriesProofs` | `TypeCorrect` | `Spec => []TypeOK` |
| | `StatementsAreOwn` | `Spec => []OwnUnlessDisturbed` |
| | `AnswersAreTrue` | `Spec => []AnswerTells` |
| `TranslatorProofs` | `TypeCorrect` | `Spec => []TypeOK` |
| | `OrderMakesNoDifference` | `Spec => []OrderIrrelevant` |
| `LiteralProofs` | `LiteralsAreKept` | `Spec => []LiteralKept` |

The assumptions on the constants are those of the modules: `None` is none of the
values it stands beside (model values in all runs); in `Proxy` no connection is
called `"accept"` or `"http"`, since the WaitGroup and the list of what Stop gave up
on are sets of names; in `Queries` some size of `Capacity` holds a whole query; in
`Translator` types are keys of the map and strings are sequences of tokens.

Two hypotheses are about the system, and the findings of section 5 are what is
true without them. `Orderly`: no client sends a SAVEPOINT outside a transaction, a
ROLLBACK TO, or a BEGIN as a prepared statement, and SQLite ends no transaction by itself.
`UniqueIds`: no two open connections have one session id. What holds without them is proved
without them, and stated first in its module: `Base` in `SessionsProofs`, all
theorems of `ProxyProofs` but the last.

Each module has an inductive invariant `IInv`, which TLC found to hold on the
instance of the runs before it was proved. There is one lemma per action, or per
group of actions alike (`<Action>Step`: they preserve it), with one step per conjunct
that they can disturb.

**Store.** `IInv` is the four safety invariants, the types, and what ties a
request's local variables to the shared state.

- `Mutex`: a request past `Lock` is the one that holds `createMu`, and none is
  under way while Open runs. So no two requests are inside at once.
- `Offline`: the maps are empty unless the store serves.
- `Reserved`: the request inside the transaction owns it, its name and username
  are still free in the catalog, and past the validation its file is usable.
  Without this, COMMIT could publish a row for a missing file or a second row
  for a username, and `Reopenable` would not be inductive.
- `Committed`: the request past COMMIT owns a durable `ready` row that no map
  shows yet. Without this, `Publish` could hand out credentials for a row that
  is not there.

`NothingIsTakenBack` needs `IInv` as well: reconcile removes
rows found `creating`, and only `Reopenable` says that there are none, since
INSERT and UPDATE are committed together. The refinement maps COMMIT to
`Provision`, `Publish` to `Announce`, `LoadReady` to `Resume`, `CloseStart` and a
`Halt` while serving to `Withdraw`, and every other step to a stutter.

**Sessions.** The properties are about sessions between commands; the invariant
says what they rely on at any time.

- `Routed`: a command in flight still meets the guards it was sent under, and has
  the connection it needs. Otherwise COMMIT could find no connection to commit on.
- `Exclusive`: nobody else holds a session's connection, as its own or for
  information_schema. With `TypeOK` and `Routed` this is `Base`, for any commands.
- `Agreed`: `told`, the session's `Tx` and SQLite's transaction are one thing, and
  `mine` is what SQLite has pending; a connection with a transaction is pinned by
  somebody. This is where the commands of the findings break the proof: each of
  them changes one of the three alone.
- `Apart`: every row is in one place (committed, undone, pending with one
  session, or in one command under way). So a commit makes no undone row return,
  and takes no other session's rows along. The rows of a `reply` that is due are
  committed, so what it promises is true even if it never arrives.

The refinement maps a BEGIN, an INSERT, and everything that ends a transaction
(COMMIT, failed or not, ROLLBACK, a disconnect, a death of the process) to the
action of that kind, `AdminQuery` and an INSERT outside a transaction to a row that
becomes durable, and all else to a stutter.

**Proxy.** `Counted`: the WaitGroup counts the accept loop until it has started the
connection's goroutine, and then that goroutine, so that Stop's wait cannot end
between the two. `Silent`: past Shutdown no management request is left but those
that Stop gave up on. `Binding`: what the handshake has noted so far is what this
client asked for and proved. `Identified`, which assumes nothing of ids: an entry of the table is
of who has its id, and a connection that is not in `clash` has its own entry, its id
alone, and no pinned connection once it has ended. Under `UniqueIds` nobody is in `clash` (`Apart`).
The refinement adds `Admitted` to the invariant: only admitted connections take
commands. `Finalize` maps to `Admit`, `Reply` to `Hold`, `Remove` to `End`, the wait
that ends to `GoDown`, and every other step to a stutter. Without `Identified`, `Remove` could
leave the connection's own session behind and close another one's; without `Counted`
there could be somebody left when Stop says that nobody is.

**Reconstruct.** `OneCopy`: one session at a time is between CREATE and RENAME, since
CREATE refuses a copy that exists. That is all the locking there is, and it is why
`CopyIsPrivate` holds. `Copied`: rows answered are in `t` before the copy, and in the
copy after it, but for those of the gap. `Tasked`: the marker's column is the
word MODIFY, which no column is called, so the definitions are read as they are.

**Queries.** `Sliced`: a slice that is still read lies within its array and yields
statements of somebody. `Progress`: what the loop has executed, it has counted. Four
conjuncts are about calls: `Raced` (those that overlap disturb their sessions), `Header` (the parser's
slice lies within its array), `Alone` (while one session calls, all others that hold a
slice are disturbed), and `Filled` (a call that nobody races has so far appended
its own statements). So when it returns, `Undisturbed` holds: the slice of a
session that nobody disturbed is its own query, and the handler is on the way its first
statement asks for. This is what makes both properties inductive.

**Translator.** While the column types are being replaced, the text is what
replacing the types visited so far makes of it at once (`Replaced`). That a further
type can be added rests on one fact about `defaultTypeMap`: what an entry yields,
its own entry leaves as it is (`TypeMapSettles`), so that chains like
BOOL, INTEGER, INTEGER do not depend on who comes first. `TypeCorrect` says that the
recursive scans are defined for every text. `Induction` is how: induction and
recursion over numbers, downwards too, as facts about sets and functions, proved
from the well-foundedness of <.

**Literals.** `LiteralKept` is about three scans in a row, for the introducers, the escapes,
and SQLite's own, over strings of any length.

- `LInv` adds to `IInv` that as long as the value is ordinary, the text is what the scans
  alone make of the statement (`Untouched`): its words are `Clean`, which no
  rewriting by word looks for (`RewritesNothing`).
- The scan for introducers removes the one before the value and no other
  (`RestoredStrips`, `ValueStrips`), if no word of it could introduce what follows (`Plain`). The scan for escapes
  leaves a text with doubled quotes (`ValueEscapes`), if no backslash of it could
  escape something (`Clear`). Each lemma goes over what is left of the statement, which is what
  is left of the value and the ending.
- SQLite reads the value, and then the rest of the statement, from what they yield
  (`ReadsTarget`, `Arrives`).

Only model-checked:

- The liveness properties (`RequestsReturn`, `RepliesUnlessExhausted`,
  `StopReturns`, `ConnectionsEnd`): they rest on fairness, which this prover does not
  handle.
- The four disagreements of section 5, which are counterexamples.

## 5. Findings

Each is a run whose property TLC finds violated (`PROJECT.json`, `findings`).

- `rollback_to`: `ROLLBACK TO SAVEPOINT` ends the whole transaction
  (`handler.go:146`); the README's example says that it keeps what came before.
- `savepoint_leak`: a `SAVEPOINT` outside a transaction opens one that the
  session does not know of; on disconnect the connection goes back to the pool
  with it (`session.go:186`).
- `session_ids`: the session id is a timestamp (`proxy.go:212`); of two connections
  that read one value, the second takes over the first one's entry of the session
  table. When the first one leaves it closes the session of the second, which is still
  in use, and removes the entry; its own session, and the pool connection
  pinned by it, stay for ever. So does what the second one pins after that.
- `shared_parser`: the statements a session is going through are replaced by
  those of another session, of whatever tenant (`infoschema.go:15`), and are
  executed on its connection. The calls of the parser need not overlap, and in this run
  they do not: it is enough that the other one comes between two statements of a text, or
  between the parse and the first of them. All statements of the run are for SQLite.

TLC finds these three as well, under configurations of section 3:

- `MCSessionsDiskLost`: on a full disk, an I/O error or lack of memory SQLite rolls back
  the whole transaction, and the session keeps its `Tx` (`handler.go:602`). The next INSERT
  autocommits, and stays although the client never sends COMMIT, or sends ROLLBACK,
  which is answered an error. A SAVEPOINT after such an error is `savepoint_leak` again.
- `MCReconstructMarker`: translator and handler disagree on the words of the marker
  (`translator.go:369`, `handler.go:179`): the handler looks for a column named
  MODIFY, copies the table as it is, and answers OK. `translator.go:362` promises the
  reconstruction, `handler.go:172` another order of the words.
- `MCTranslator*`: strings that are not `Ordinary`. `translateStringEscapes` takes a
  backslash before a quote for an escape, in texts restored from the AST too, whose
  backslashes are data: a value that ends in one swallows the rest of the statement
  (`translator.go:620`). The pattern for introducers takes the end of `'user_name', 'x'`
  for one, in a text that is not parsed (`translator.go:592`). And words in literals are
  rewritten like SQL: `'true'` in a SELECT (`translator.go:558`), `'NOW()'`, a type name in a
  DEFAULT, an option, ON DUPLICATE KEY UPDATE.

Seen while modelling, and not the subject of a run of its own:

- Sessions keep their connection until they leave, and information_schema takes a
  second one without a deadline (`infoschema.go:142`); at the pool's limit all wait
  for ever. `RepliesUnlessExhausted` excepts exactly this: without its premise
  TLC finds it violated.
- A prepared BEGIN, or one in a text the parser refuses, opens a transaction that
  the session does not know of; COMMIT is then answered `no active transaction`,
  and the connection goes back to the pool as in `savepoint_leak`.
- A statement prepared in a transaction is refused after it (`handler.go:513`).
- After a first statement that `HandleQuery` answers itself, the rest of the text is
  dropped and the answer is OK (`handler.go:75`); so it is when an
  information_schema query fails (`infoschema.go:53-69`). So `AnswerTells` claims
  nothing of an OK on these routes.

A tenant
file that no catalog row names stays behind after a failed `validatePool.Close()`,
a partial upload, or a crash before COMMIT; no start removes it. Rows inserted
between the copy and the drop of a MODIFY COLUMN are lost. A drop or rename that
fails leaves `_tmp_<table>` behind, and all later MODIFY COLUMNs of that table then
fail. A transaction that reads before it writes is refused its write at once when
another session has committed in between: BEGIN is deferred (`handler.go:333`),
and no busy timeout applies to an outdated snapshot (the repository's README says
that the busy timeout prevents lock contention errors; for this case it does not).

## 6. What is not modelled

- `Store.Export`: it hands out the path of the main database file, and whether a
  committed row is in it depends on SQLite's checkpoints. `List`, `Stats`, `Get`
  only read maps.
- Which rows an information_schema query returns (`infoschema.go:77-286`): a
  function of the WHERE clause without state.
- Power loss, and SQLite's own durability and locking protocol.
- MySQL wire encoding, result sets, column types of results.
- What a data race in the parser can do beyond mixing whole statements.
- `INSERT OR ROLLBACK`, whose failure ends a transaction as `RefuseAll` does.
- In the translator: SHOW, SET and DESCRIBE, index clauses, table options, LIMIT, CONCAT and date
  formats, which are text rewriting without state. They change literals
  that have their words; the strings of the model have none of these. In HandleStmtPrepare: the
  counts of parameters and columns.
- Configuration, command lines, the command-line client: sequential, no state
  after start-up.
- `SessionManager.Cleanup`, which nothing calls.

## 7. Plan

Done: Provisioning, Store; Transactions, Sessions; Queries; Translator; Service, Proxy;
Reconstruct; the proofs of section 4. Next:

1. For `Reconstruct` an abstract ALTER in one step, with the proof that it is
   refined.
2. `Export`, with checkpoints as external steps (`management/handler.go:145`).
3. `InfoSchema`: the equalities that `extractWhereEqualities` collects, against what
   the WHERE clause means.
