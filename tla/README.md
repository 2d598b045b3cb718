# AIUB Lost & Found: TLA+ models, checks and proofs

The repository is a PHP + MariaDB site on which members of a campus report lost
and found items. A matching engine scores every new report against the reports
of the other kind, records the pairs that score at least 55 of 100 and tells
both parties, in-app and by mail. This directory holds TLA+ modules of that
program, TLC configurations that check them on small instances, and TLAPS
proofs. Paths below are relative to `aiub-lost-and-found/` unless they start
with `/`, which stands for the root of the repository.

## The system

### How it executes

Every page is one PHP request. Requests of different browsers run concurrently
(the site is deployed on shared hosting, `config/database.php`); requests of
one browser session are serialised by PHP's lock on the session file. All
shared state is in five InnoDB tables. PDO is in autocommit mode with
`ERRMODE_EXCEPTION`, and **no code opens a transaction**: a request is a
sequence of atomic SQL statements between which other requests run, and a
statement the database refuses ends the request at that point, because only
`admin/add-user.php` catches `PDOException`. A request can also end between two
statements for outside reasons: `max_execution_time` is 30 s (`/php/php.ini`)
while each mail may take up to 15 s, and a request that finds several matches
sends two mails for each of them.

### Inventory

| component | source | state | operations | hard part |
|---|---|---|---|---|
| Schema | `database.sql`, `/aiub-lostfound-import.sql` | five tables, foreign keys with `ON DELETE CASCADE`, `UNIQUE(email)`, `UNIQUE(lost,found)` | | the keys are the only mutual exclusion the site has |
| Scoring | `includes/matching.php` 14-75 | none | `calculate_match_score`, `extract_keywords` | rounding, date limits, repeated words |
| Matching engine | `includes/matching.php` 80-133 | `matches`, `status` columns | `match_new_lost_item`, `match_new_found_item`, `evaluate_and_store_match` | two reports submitted together; check-then-insert; death in the loop |
| Reporting | `report-lost.php`, `report-found.php`, `admin/add-item.php` | `lost_items`, `found_items`, image files | validate, store image, INSERT, match | the photo is moved before the row exists |
| Announcing | `includes/functions.php` 102-420 | `notifications`, mails | `create_notification`, `send_email_notification`, `notify_match_found` | recipient deleted between SELECT and INSERT, mail failures |
| Item page | `item-details.php` | `status` | resolve, resend a match mail | resolve races with matching |
| Administration | `admin/dashboard.php` and the other `admin/*.php` | all tables | delete user, report, match; add user, report | cascades under running requests |
| Accounts | `auth/*.php`, `includes/functions.php` 11-46 | `users`, PHP session | register, login, logout, flash | check-then-insert on the e-mail, session outlives the account |
| Notifications page | `notifications.php`, `includes/header.php` | `is_read` | mark all read, list, badge | UPDATE precedes SELECT |
| Listing pages | `index.php`, `dashboard.php`, `browse-*.php` | none | search, counts, lists | texts are stored escaped; three different joins over the same rows |
| Browser code | `assets/js/script.js`, `assets/css/style.css` | the file input and its preview | choose, drop, remove a photo | the preview is loaded by a callback |
| Startup | `/start-server.bat` | data directory, database, tables | start DB, import schema, start PHP | fixed wait, errors discarded, partial import |
| Mail test page | `test-email.php` | none | send a test mail | |
| PHPMailer, PHP, MariaDB | vendored | | | |

Interaction: a report page calls the matching engine, which calls the scoring
function for every candidate and `notify_match_found` for every new match; the
item page calls `notify_match_found` directly. All of them meet only in the
database, and the administrator's deletions take rows away from under them.

### What makes each component correct

* Schema: references never dangle.
* Matching: of two similar unresolved reports at least one request sees the
  other, however the two overlap; a pair is recorded once; a report's status
  only moves forward.
* Announcing: every recorded match reaches both parties once; a mail implies an
  in-app row; success is reported only if every mail went out.
* Scoring: 0 to 100, monotone in what the found report says, blind to case; two
  reports typed alike are matched, and escaping adds few points to others.
* Pages: a match shown on one page is shown on the others; a report is found by
  the pieces of its text.
* Photos: a report gets the photo its form displayed, and keeps it.
* Startup: imports that run at every start, even side by side, leave a whole
  schema unless one is broken off.
* Every request ends, every start ends, serves or waits for a key, what is marked
  read is shown.

## Modules

* **`LostFound`** is the core. One action is one SQL statement (or one SMTP
  exchange) with the PHP code up to the next one. The request that submits a
  report is named by the id the report gets; `Resends` are the requests
  `item-details.php?notify_match=`.
  | TLA+ | code |
  |---|---|
  | `users`, `items`, `status`, `matches`, `notifications` | the tables, reduced to the columns that matter |
  | `mails` | mails the SMTP server accepted |
  | `pc` | the next statement of each request; `done`, or `died` for a request that ended with an error or was killed |
  | `todo` | `$foundItems` / `$lostItems` of the loop, minus the rows handled |
  | `pair` | `$lost`, `$found` in `evaluate_and_store_match` / `notify_match_found` |
  | `recipients` | the blocks of `notify_match_found` still to run |
  | `allSent` | `$allSent` |
  | `removed` | history variable: match rows deleted by the administrator or by a cascade |
  | `recorder` | history variable: the request whose INSERT wrote the row of a pair, so that properties can tell it from one that lost the race for the row |

  Actions: `InsertItem`, `Reload`, `SelectCandidates`, `Evaluate`,
  `FinishReport`, `InsertMatch`, `MarkLost`, `MarkFound` (reporting and
  matching); `BeginResend`, `FindOwner`, `FindFinder`, `Notify`, `Mail`
  (announcing); `ConstraintError` (a statement refused by a foreign key or the
  UNIQUE key: the uncaught exception ends the request); `Die` (the request is
  killed); `Resolve`; `DeleteUser`, `DeleteItem`, `DeleteMatch` with their
  cascades. `ConstraintError` is enabled exactly where `InsertItem`,
  `InsertMatch` or `Notify` is refused.
* **`MatchBoard`** is the abstract specification of that core, without requests:
  a board of pairs of reports that look alike, with the steps `Post`, `Record`,
  `Advance`, `Close`, `Tell` and `Withdraw`. `LostFound` instantiates it as
  `Board` (`users`, `items`, `status`, `matches`, `removed` and `notifications`
  are the board's variables, `Score >= MATCH_THRESHOLD` is `Alike`), and
  `ImplementsBoard` says that every statement of every request is a step of the
  board or changes nothing that members see.
* **`Pages`** holds the queries of the pages that show matches:
  `item-details.php` (inner joins), `dashboard.php` (left joins, one count) and
  `admin/dashboard.php` (inner joins for the list, none for the total). Each is
  an operator on the tables in one state.
* **`MatchScore`** is the scoring function as operators over reports.
  A text is a sequence of tokens: words (maximal runs of ASCII letters and
  digits) and marks (single other characters), which `extract_keywords` blanks.
  Keywords are a function from positions, so repeated words count as they do in
  the PHP arrays. `RoundedQuotient` is PHP's `round` of an exact quotient. PHP
  computes `count / count * 30` in double precision; for up to 1000 keywords
  every such value rounds to the same number as the exact one.
* **`MatchScoring`** is one call of it for any pair of reports, with the
  properties of the result.
* **`ReportText`** is what happens to the texts before: members' forms pass them
  through `clean()` (`htmlspecialchars`), `admin/add-item.php` stores them as
  typed, and `browse-*.php` pass the search through `clean()` too. `Entity`
  is the table of `htmlspecialchars`, and escaping goes token by token
  (`Escape`). `Like` is MySQL's LIKE, read from left to right (`LikeStep`): `%`
  stands for any tokens, `_` for one mark, a backslash takes the meaning of the
  next token away, and the collation ignores the case. `SearchPattern` builds
  `%$search%` without escaping these, as the pages do. `Like` works on whole
  tokens, so the real LIKE finds more (parts of words), never less. `FormSpec`
  stores two forms and scores the rows.
* **`Accounts`**: registration, login, logout, flash messages and the
  administrator's accounts. Requests of one browser exclude each other by the
  session lock (`form[s] = None` in `Answer`); a registration is two statements
  (`RegisterFree`, then `RegisterInsert` or `RegisterCrash`), every other
  request is one step. `ReportCrash` is a report from a session whose account
  was deleted: the foreign key refuses it. `page` is what the browser shows, `login_as` a history
  variable.
* **`Inbox`**: `notifications.php` as three statements, `MarkRead` (UPDATE),
  `FetchAll` (SELECT), `CountUnread` (the badge in `includes/header.php`, after
  which the page is complete), with `Create` (`create_notification`),
  `DeleteUser` and `Die` around them.
* **`Uploads`**: the photo of a report, from the form to the `image` column.
  `Destination` is the path `handle_image_upload` builds; that `uniqid` gives
  every request a name of its own is an assumption about PHP.
* **`PhotoForm`** puts the upload zone of `assets/js/script.js` in front of it:
  `input` is `input.files[0]`, `preview` the picture displayed, `reading` the
  files whose `FileReader` has not called `onload` yet. `Choose` is the drop
  handler and the change handler with `showPreview`, `Dismiss` the change
  handler for an emptied input, `Loaded` is `onload`, `RemovePhoto` the button,
  and `Receive` and `Store` are the actions of `Uploads` for the file that was
  sent. `hurried` is a history variable: the visitor went on while a reader was
  loading.
* **`Startup`** is `/start-server.bat`, one action per command of the script, in
  several console windows that share the data directory and the server. The
  import is one step per CREATE TABLE of `database.sql`; the client stops at the
  first one that is refused. Without PHP the script stops at `pause` until
  somebody presses a key (`PressKey`). `ServerReady`, `ServerStops` and `Close`
  are the world around it; `offline` and `broken` are history variables.
* **`LostFoundProofs`**, **`BoardProofs`**, **`MatchScoreProofs`**,
  **`AccountsProofs`**, **`InboxProofs`**, **`UploadsProofs`**,
  **`PhotoFormProofs`**, **`StartupProofs`** hold the theorems.
* **`MC...`** are the instances for TLC. `MCLostFound` composes the core with
  the scoring model: the scores of its pairs are computed by `MatchScore` from
  four sample reports (55, 55, 60 and 50 points).

Definitions commented *Fault* are variants of an operation with one mistake in
it. No specification uses them; substituting one for the operation it precedes
violates the property it is paired with in `PROJECT.json`, which shows that the
property depends on that line of the code.

## What TLC checks

| run | instance | shows |
|---|---|---|
| `race` | 2 lost reports, 1 found, all at once; owners resolve, requests may die; one account is owner and finder of a pair | no pair is missed (`NoMissedPair`) or announced twice (`AlertedOnce`); the request that inserted the row of a pair marks both reports (`MatchedItemsMarked`) and tells both parties (`MatchAnnounced`) unless it died itself; no status goes back (`StatusMonotone`) |
| `admin` | 1 lost, 1 found, 1 resend, deletions of accounts, reports and match rows | `RefIntegrity`, `MailedIsNotified`, `SuccessMeansAllMailed`, `MatchAnnounced` and `NoMissedPair` under deletions; the pages agree about the matches (`PagesAgree`); the core implements `MatchBoard` (`ImplementsBoard`) |
| `live` | 1 lost, 1 found, 1 resend, deaths | every request ends (`RequestsTerminate`); a recorded match is announced (`MatchEventuallyAnnounced`) |
| `scoring` | 26880 pairs of forms: repeated words, stopwords, mixed case, empty fields, dates at the limits, texts with `&`, `'`, `%`, `_` and a backslash, entered by members and by the administrator | `NoPointsCut`, `CategoryOrWords`, `FoundWordsMonotone`, `CaseBlind`; reports typed alike are matched through any two forms, up to a limit when only the lost one was escaped (`TwinsRecorded`); a report is found by the pieces of its text without a backslash (`PieceFound`); words such as `amp` that only escaping adds earn at most 20 points (`EscapesStayMinor`) |
| `accounts` | 2 browsers, 2 addresses, 3 accounts | `OneAccountPerEmail`, `SessionKeepsPerson`, `NoMessageAfterLogout` |
| `inbox` | 2 browsers of one user, a second user, 3 notifications | `ReadWasShown`, `BadgeOnlyNew`; what is marked read is eventually shown or its page died or it was deleted (`ReadGetsShown`) |
| `uploads` | 2 forms, 2 photos and a file that is none, file names that coincide | `PhotoIsOwn`, `OrphanExplained`; the photo stored is the one displayed (`PhotoWasShown`) |
| `startup` | 2 windows, opened and closed any number of times | an import that has begun leads to the whole schema unless one is broken off (`ImportCompletes`); tables are missing only if the client found no database, another window is importing, or an import was broken off (`IncompleteExplained`); every start serves, ends or waits for a key (`StartsFinish`) |

The other runs each show that the code does not keep something a document or a
message of the program says. They are described in the next section.

### Bounds

Bounds are in the `.cfg` files and in the constants `MaxUsers` and
`MaxNotifications`. Why they are enough for the cases of interest:

* A race about a match needs two requests. A request that loses one pair and
  has another left needs a third report, hence three reports in `race` and
  `duplicate_key`. Scores are such that a pair lies exactly on the threshold.
* Names in the passing runs of the core are as long as the titles allow (124
  and 112 characters), in `long_title` one character longer.
* In `accounts` three ids let an address be registered, deleted and registered
  again while two sessions are open.
* In `inbox` a user has two browsers and there are three notifications, so that
  one can be read, one on its way and one new. No symmetry is used there, nor in
  `startup`, because both check liveness.
* In `uploads` two forms write to the same directory. Two photos let a preview
  of the first load after the second was chosen; the third file is refused.
* In `startup` two windows suffice for an import beside an import. Windows are
  opened again without a bound, so an import broken off at any table is followed
  by any number of further starts.
* In `scoring` texts have up to five tokens, enough for every share of common
  words around the threshold, and `&` and `'` stand for the five characters that
  are escaped: one gives a word of letters, one a word of digits. `%`, `_` and
  the backslash are all the characters LIKE interprets.
* `Resends` is one request: resends do not write tables that other requests
  read, apart from `notifications`.

Deadlock checking is off where the model really stops: when every request has
ended and nobody submits another report, or when the bound on accounts is
reached. The inbox and the start script never stop and are checked for deadlock.

### Fairness

`LostFound` assumes weak fairness of the steps of every running request and of
nothing else: PHP runs an accepted request on until it ends, MariaDB answers
every statement, and PHPMailer answers within its 15 s timeout, with success or
failure. That a report is submitted, that the owner resolves one, that the
administrator acts or that a request is killed is never assumed. `Inbox`
assumes the same of a notifications page that has begun (`FetchAll`,
`CountUnread`), and not that anybody opens one. `Startup` assumes that `cmd.exe`
goes on to the next line of the script, except at `pause`, where it waits for a
key that nobody may press. Nothing is assumed about the database server or about
who closes a window. The other modules state no liveness.

## Where code and documentation disagree

| run | the code | the claim |
|---|---|---|
| `duplicate_key` | of two requests that both see no row for a pair, the second dies on the UNIQUE key, in the middle of its candidates | README.md:50, "scores it against **all existing open reports**" |
| `stale_status` | a new report is matched with a candidate that its owner resolved after the candidates were fetched | `includes/matching.php`:78, "check it against all open found items" |
| `long_title` | a name of more than 124 (112) characters makes the INSERT of the notification fail after the match row was written; nobody is told, then or later | README.md:26, "both parties are instantly notified" |
| `resend_nobody` | `$allSent` starts as true, so a resend without recipients reports success | `item-details.php`:57, "sent to Gmail successfully" |

Smaller ones have no run of their own. `DatePoints` has a second tier, 5 points
for 31 to 60 days, of which `includes/matching.php`:12 and README.md:61 say
nothing. `Startup` reaches states in which the script prints "Database ready!"
(`/start-server.bat`:38) with tables missing: an import that was broken off after
the first table is never completed by a later start, because the client stops at
`CREATE TABLE users` and its error is discarded; `broken` and `offline` in
`IncompleteExplained` are exactly these cases. Three are visible in the actions of
`Accounts`: `RegisterCrash` is reachable (of two registrations of one address
the second ends in an uncaught exception, not in `auth/register.php`:28 "An
account with this email already exists."); `VisitAuth` leaves the success flash
alone, so "Please log in." (`auth/register.php`:35) is usually shown after the
login; and `AddUser` and `AddNobody` answer "added" (`admin/dashboard.php`:169)
whether or not a row was stored. The searches of `browse-*.php` do not escape
`%`, `_` and the backslash for LIKE: a piece of a text with a backslash in it,
such as a path, is not found, which `PieceFound` leaves out.

`long_title` holds for a server in its default strict mode (MySQL 5.7 and later,
which README.md:138 asks for, and MariaDB since 10.2); without it the title is
cut silently. With names that fit, the same instance keeps
`BothPartiesNotified`.

## What is proved

All theorems hold for every value of the constants under the `ASSUME`s of the
modules: lost and found ids are disjoint and differ from resend requests,
`UserId`, `NameLength`, `UserOf` and `Kind` are functions of the stated types,
scores and threshold are between 0 and 100 (`MATCH_THRESHOLD` is 55 where the
score itself is modelled), words are not marks, lower-casing a word twice is
lower-casing it once, every character that is escaped is a mark and what
`htmlspecialchars` writes for it holds exactly one word (`amp`, `quot`, `039`,
`lt`, `gt`) and none of the characters LIKE interprets, photos are not other files, and the placeholders `NoPair` and
`None` are not values.

* `TypeCorrect`, `ReferencesHold`, `StatusForward` (`LostFoundProofs`): types,
  foreign keys and forward-only status. `TypeInv` adds to `TypeOK` that a
  request at a recording or announcing step has a pair of its own
  (`PairKnown`); foreign keys follow because every INSERT checks them and
  `Delete` removes what refers to what it deletes.
* `NothingMissed` (`NoMissedPair`): the invariant `PairSeen` says of a
  similar pair of stored unresolved reports that it is recorded, or one of the
  two requests still has to fetch its candidates, or has the other report in
  `todo`, or is recording the pair, or died. It is inductive because a report
  is inserted before its request fetches candidates: whichever of the two
  fetches last sees the other.
* `NobodyToldTwice` (`AlertedOnce`): the invariant `AlertInv` says that the row
  of a pair exists while a request records or announces it (`RowExists`), that
  only one request does (`OneAnnouncer`, from the UNIQUE key), and that the
  recipients it still has were not told (`NotYetTold`).
* `MatchedAreMarked` (`MatchedItemsMarked`): `Marking` adds which report is
  still to be marked. At `mark_found` only the found one may look open: without
  that a request that leaves the second UPDATE proves nothing about the first
  report. `RecorderKnown` says that every row was inserted by the request of
  a report; the lemmas `RecorderSet` and `RecorderKept` say that the INSERT makes
  its request the recorder and that nothing else changes it. Therefore the death
  of a request that lost the race for the row does not count.
* `MatchesAreAnnounced` (`MatchAnnounced`): `WillInform` follows the recorder
  of a match through `notify_match_found`. While it looks up the
  parties the owner is among the recipients once found; from then on each of the
  two parties is told or is the account behind a recipient still to be served
  (`Served`), which also covers one account in both roles, for which the code
  drops the second block. The lookups succeed because a stored match has both
  accounts (`ReferencesHold`); a deletion that takes an account takes the match.
* `MailsBacked` (`MailedIsNotified`): `MailBacked` says that a request about to
  send a mail has its row stored, unless the account is gone.
* `SuccessIsHonest` (`SuccessMeansAllMailed`): `SentOrFailed` says of a resend
  that `$allSent` is still true only if every row it wrote was mailed, but for
  the one whose mail is due.
* `BoardImplemented` (`ImplementsBoard`, in `BoardProofs`): the initial states
  map to initial states of `MatchBoard`, and `StepSimulation` gives the board
  step of every action. It needs `BoardInv`: an id not yet used is that of an
  open report (`FreshOpen`, for `Post`), a request inserts only a pair it has
  scored (`ScoredFirst`, for `Record`), and whoever marks or tells does so after
  the row was written (`RowFirst`, for `Advance` and `Tell`).
* `PagesAlwaysAgree` (`PagesAgree`): an inner join loses no row while the foreign
  keys hold, so it follows from `ReferencesHold`.
* `ScoreInRange`, `TypeCorrect`, `NeverCut`, `CategoryRequiredIsh`
  (`MatchScoreProofs`): from lemmas on rounding (`QuotientBounds`), on the share
  of common words (`ShareBounds`) and on the number of them (`CountBounds`), for
  texts of any length over any vocabulary. `MoreWordsNeverHurt`
  (`FoundWordsMonotone`) needs that a larger share earns no fewer points
  (`ShareMonotone`), `CaseNeverMatters` (`CaseBlind`) that lower-casing keeps the
  keywords (`LowerKeepsKeywords`) and the short fields. `RubricForForms` restates the four for
  `FormSpec`, the specification of the run.
* `TwinsAreRecorded`, `PiecesAreFound`, `EscapesAreMinor` (`TwinsRecorded`,
  `PieceFound`, `EscapesStayMinor`): the escaped texts, of any length. `FormInv`
  says that the rows are what `StoredReport` made of the forms and that the
  score is theirs; the rest is about the operators. `CleanCount` says what
  escaping does to the number of words of any set of keywords: none goes, at
  most one comes for each special character. Reports typed alike therefore share
  all keywords of the lost one, or, if only that one was escaped, all that were
  typed (`TwinsShare`): 31 keywords for 29 special characters are 29/60 of them,
  15 points, which with category and date make 55. And if escaping adds at most
  half as many words as were typed, the share of common ones grows by at most a
  third, 10 points after rounding (`ShareGain`); a location adds 10. For the
  search, escaping commutes with concatenation (`CleanConcat`), so a piece of a
  text becomes a piece of the escaped text, without a backslash if it had none
  (`CleanNoBackslash`); `PieceIsFound` follows the pattern through `LikeStep`:
  every token of the piece, a `%` or `_` included, passes over itself.

  These lemmas are inductions over texts. The library's induction theorems take
  the property as an operator, which the provers cannot instantiate, so
  `NatInSet` and `SeqInSet` state induction for a *set* of numbers or sequences;
  `NatInSet` follows from the well-foundedness of the proper-subset order on
  finite sets, applied to the intervals `0..n`. `FlattenIsConcat` shows that the
  recursive function inside the library's `FlattenSeq` exists and computes the
  concatenation, `LikeScan` that the one inside `Like` exists.
* `EmailsUnique`, `SessionsKeepPersons` (`AccountsProofs`): `AccountInv` adds
  that ids in use by rows or sessions are below the counter, so a new row has
  an id nobody knows. `TypeCorrect` and `MessagesEndWithSession`: `SessionInv` is
  `TypeOK` with `NoMessageAfterLogout` stated place by place (`Quiet`); a request
  answers one session and leaves the others alone (`OthersQuiet`).
* `TypeCorrect`, `NothingReadUnseen`, `BadgeIsNew` (`InboxProofs`): `PageInv`
  adds that ids grow and that what the UPDATE of an unfinished page found stays
  read.
* `TypeCorrect`, `PhotosKept`, `OrphansExplained` (`UploadsProofs`): `PhotoInv`
  says that a taken path and the request whose photo it holds refer to each
  other. `ServerPart` (`PhotoFormProofs`) shows that `FormSpec` implements
  `Uploads`, so they hold behind the forms; `BrowserTypeCorrect` and
  `ShownIsStored` need `FormInv`: a form that was not hurried displays its file
  or is loading that file alone (`InSync`), and the server has a photo only after
  the page was sent (`PhotoWasSent`).
* `TypeCorrect`, `MissingTablesExplained` (`StartupProofs`):
  `ImportInv` says that tables exist in the order of `database.sql` (`InOrder`),
  that a window finds the tables before its next statement (`ImportedSoFar`), and
  that a half-made schema has a window whose next table is missing (`Pioneer`)
  unless an import was broken off. A client that is refused leaves the rest to
  that window.

Only model-checked: the liveness properties `RequestsTerminate`,
`MatchEventuallyAnnounced`, `ReadGetsShown`, `ImportCompletes` and
`StartsFinish`, because fairness is out of the prover's reach, and that rows built by the forms are those of the
instance (`TypeOK` under `FormSpec`: the type of the stored rows is the lemma
`FormReports`). Every other invariant and action property of the passing runs is
stated by a theorem. The properties of the four runs that expect a violation do
not hold, so there is nothing to prove.

## What is not modelled

* `index.php` and the filters of `browse-*.php` by category and status: single
  queries without a condition that could go wrong. `test-email.php`: a manual
  test of the SMTP settings.
* `assets/css/style.css` and `assets/js/script.js` outside the upload zone
  (counters, animations, progress bars, copy button, tabs, toasts): presentation, with no state the
  server sees.
* The text of mails and notifications, except the length of titles. Passwords
  are right or wrong. Category, colour and brand are compared as a whole and hold
  no character that is escaped.
* The order and time of several queries of one page: `Pages` compares queries in
  one state. A page that runs them while rows are deleted may show a list that
  is shorter than the count above it until it is loaded again.
* PHPMailer, PHP and MariaDB, the headers of the MariaDB server under
  `/mariadb/include` included, are third-party code that the repository carries
  along. They make up nearly all of its C lines, and the program uses them only
  through SQL, PHP's functions and one class. The models assume of them that a
  statement is atomic, that an id is never handed out twice, that CREATE TABLE
  is durable, that the session lock works and that `uniqid` does not repeat.

## Plan

Done in the order of importance: core, scoring, accounts, notifications page,
photos; then the abstract board and its refinement, the texts, the pages, the
upload zone and the start script; then a theorem for each safety property of
the passing runs. Next:

1. Composition of `LostFound` with `Inbox`: a match is eventually on a page of
   a user who keeps visiting.
2. The safety part of the liveness arguments: a measure on the steps of a request
   that every statement decreases, from which termination follows under the
   fairness above.
3. What the cases of `MatchAnnounced` leave to the death of the recorder, as an
   invariant of the instance without `Die`: only a refused statement of its own
   ends a request then.
