# Verification of erp-billing-mcp

TLA+ models of the ERP billing MCP server in `src/`, TLC runs over small
instances, and TLAPS proofs for all instances. The server lets a chat agent
match order texts to products, preview and submit sales orders, and query,
update and void them in an ERP over HTTP. It is one Python process on asyncio;
nothing but the WorkBuddy OAuth table is persisted.

Paths below are relative to `src/src/erp_billing/` unless they start with
another directory.

## 1. The system

| Part | State | Operations | Interacts with |
|---|---|---|---|
| Submission (`toolset.submit_sales_order`, `session`) | previews (20), marks of unknown results, results by idempotency key (50), `submission_lock` | preview, submit, look the order number up | ERP `POST` (lost, refused, late answers), cancellation by the client |
| Preview (`toolset.preview_sales_order`, `session`) | remembered references (200); the dialogue with the agent | match lines, confirm products and units, resolve customer, warehouse, handler, list required actions | catalogue (may change at every await), ERP searches, the agent (`prompt.py`) |
| Tenant catalogue (`catalog_state`, `session`) | catalogue, two timers, lock, background task; a private override per conversation | ensure, full and partial synchronisation, background refresh, close | product paging; all conversations of a tenant |
| Product paging (`adapters.fetch_products`) | rows so far, page number | one ERP page per step | the ERP's list, which changes between pages |
| Matching (`catalog`, `matcher`) | alias table, synonym groups | build groups, match a name or the lines of an order | built for every catalogue; used by preview and search |
| Order-text parsing (`session.parse_order_text`) | none | text to lines and quantities | matching, preview |
| Updates, voids and order queries (`adapters.update_sales_order`, `_merge_sales_order_update`, `_resolve_order_id`, void, detail) | none; the orders live in the ERP | find by id or number, read, merge, `PUT`, look the number up | other clients of the ERP |
| Conversations (`app.py`, `workbuddy_oauth.py:656-740`, `gjp_common/context.py`, `gjp_common/mcp.py` `call_tool`) | credentials by conversation, TTL/LRU cache of ToolSets, catalogue state by tenant, context of each task | admit and identify a request, find or make its session, run the tool in its context, close | every tool call |
| WorkBuddy OAuth (`workbuddy_oauth`) | SQLite table of clients, requests, bindings, codes, tokens | register, authorize, bind a key, exchange, refresh, revoke, let a call in | crash at any commit; the ERP validates keys |
| Transport, tool contracts, records, configuration, logging | none of interest | — | — |

What is hard in it: calls of one conversation interleave at every `await`; an
ERP write whose answer is lost may or may not have happened; caches of
previews, results, references and sessions evict; the catalogue is replaced
while previews are being built; the ERP's list changes between two pages; whole
orders are written back without a version; a crash may fall between two
commits of one OAuth handler. `PROJECT.json` lists each such hazard at its line
with the properties that watch it.

What makes each part correct: one preview never becomes two orders and callers
are told the truth (submission); what is stored for submission is what was said
and confirmed, and the dialogue always leads on (preview); nobody sees an older
or a list cut for another conversation, and loads are shared (catalogue); no
product within a load's limit is missed and every load ends (paging); only unambiguous
names are taken without asking (matching); a clear order becomes the lines that
were meant (order text); only the order that was named is written, and the
answer names it (updates); previews, locks, credentials and grants stay with
their conversation (conversations); codes and refresh tokens are spent once,
nothing is done that was not granted, and tokens that a revocation found or a
successor replaced stay dead (OAuth).

## 2. Modules

A definition named "(variant: ...)" in its comment is a plausible wrong version
of the one after it; replacing the latter by it must break the property that
`PROJECT.json` "mutants" names. It is not part of the model.

- **OrderLedger** is the abstract specification of submission: a preview may be
  sent only while nothing sent before can still become an order.
- **Submission** models `submit_sales_order` with the session's lists. One
  action per stretch between two awaits: `Submit` (arrival, and the whole of a
  replay or refusal if the lock is free), `TakeTurn` (the lock is passed on),
  `CreateEnds` (the create request is answered, refused, times out, or its
  answer does not decode), `LookupEnds`, `Cancel`, `StorePreview`, `Restart`;
  `Erp` is the environment. Orders are named by the call that created them.
- **CatalogState** models `TenantCatalogState` and the session's part in it
  (`ensure_catalog`, `replace_product_catalog`, the override). Actors are calls
  and the background tasks they start; a load reads (`Reads`) and ends
  (`LoadEnds`) in separate steps, with `ErpChanges` between. TTL and cooldown
  are flags that the clock lowers at any time, which covers all durations. A
  catalogue is the version of the ERP's list it was read from and the limit it was
  cut at: every load has one (`EffectiveLimit`), the limit a partial synchronisation
  asked for or else `settings.auto_sync_limit`.
- **ProductPaging** models the loop of `fetch_products`; products come and go
  between its pages.
- **ProductMatching** models `_merge_product_aliases`, the search over the alias
  graph in `_build_alias_groups` (in any order: the neighbours are a set), and
  the classes of hits of `ProductMatcher`. Substring, processed-food and
  similarity tests are relations given as constants, names are kept apart from
  their normalised keys.
- **OrderText** models `parse_order_text` as operators: separators, the four
  patterns of a part in the order they are tried, request prefixes, numbers in
  digits and in words. A text is a sequence of lexemes, one for each class of
  characters the regular expressions tell apart. The module also says how an
  order that is *meant* is written down, which gives the reference the reading
  is compared with: `Clear` collects when the two must agree. An item is any record
  `IsItem` accepts: any names and units as sequences of lexemes, any count below
  ten thousand.
- **OrderLines** composes the two as `create_draft_from_text` does: an order is
  said item by item, read, and every line is matched in the catalogue. Reading
  leaves the variables of ProductMatching alone, so what is proved of them holds
  here too.
- **SalesOrderPreview** models a whole dialogue: an agent calls
  `previewSalesOrder` with order text, confirmations, units and references until
  it is ready, while catalogues are installed and other searches push
  references out of the session's memory. `Carried` gives, for each single required
  action, the forms that carry it out (`prompt.py:110-117`); `Supply`, what the
  obedient agent may send next, is their union.
- **SalesOrderUpdate** models updates and voids of several orders, with the order
  queries they consist of: a number is resolved on one page of a search that
  finds every number containing it (`Resolve`), an update reads, merges and
  `PUT`s, a void looks the number up, resolves again and `PUT`s; `PUT`s are
  applied late or not at all. `party` stands for the fields an effective order
  locks, `note` for the others, `items` for the lines.
- **Conversations** models both entries: whom a request is from (legacy: bearer
  token before API key; WorkBuddy: a living access token of a bound key), which
  session and catalogue it gets, with which identity and scopes its task runs
  (`Bind`: a ContextVar belongs to the task), and which credential its ERP
  requests carry, while sessions expire and are evicted, tokens are renewed, run
  out or are revoked, and the entry is closed. Resolving awaits nothing, so it
  is one step; what a call does with its context (`AskErp`, `Write`, `Submits`)
  is interleaved with other calls. `event` is what was seen last from outside.
- **WorkBuddyOAuth** models the provider over its table. `job` holds the commits
  the running handler still owes: a handler has no await between its statements,
  so nothing else runs in between, but `Crash` may. The ERP validator is the one
  await (`BindStarts`, `BindSucceeds`, `BindFails`). A tool call comes in with an
  access token (`call`) and may still run when the token is revoked. A revocation
  deletes the pair (`Revoke`) or, if the token it names has no row any more, nothing
  (`RevokeMisses`); the client is answered the same (`workbuddy_oauth.py:389`).
  What it was told is kept with the tokens that are gone for it.
- **MC...** modules give the constants of TLC runs their values. MCCatalogState
  numbers requests in the order they begin instead of using symmetry, which
  would be unsound for liveness. MCSalesOrderPreview adds the obedient agent.
  MCWorkBuddyOAuth lets one revocation miss its token, and none while a tool call is
  out (`OneMiss`): no step looks at the revocations answered or at the call, and each
  property speaks of one answer or of the call, so such behaviours stand for all.
- **...Proofs** modules hold the theorems.

Submission is composed with OrderLedger by a refinement mapping
(`ImplementsLedger`). The other modules are composed by their interfaces:
OrderLines composes OrderText with ProductMatching. SalesOrderPreview uses a
catalogue as CatalogState installs it and hits as ProductMatching classifies
them; its ready answer is the `StorePreview` of
Submission; the loss of a session in Conversations is the `Restart` of
Submission; a load of CatalogState is a run of ProductPaging.

## 3. Runs

| Run | Question | Bounds |
|---|---|---|
| `submission_safety` | Does one preview ever become two orders; are marks exact; are answers true; does the session implement OrderLedger? | 3 calls, 2 previews, 3 keys, 1 preview and 1 result kept |
| `submission_answers` | Is every submission answered, and every replay the original answer? | 3 calls on 1 preview, bodies may not decode |
| `submission_undecodable` | *(violation)* Is a preview resent after an answer that cannot be decoded? | 2 calls |
| `catalog` | Are loads shared, catalogues never older, lists cut on request private, synchronisations current, shutdown quiet; does everything end? | 3 requests of 2 conversations with their tasks, 2 versions, `auto_sync_limit` 2, limits 1 and 3 asked for |
| `paging` | Is anything missed that the limit lets the load get to, does every load end? | up to 4 products, pages of 2, limits 1 to 4 and none |
| `paging_limit` | *(violation)* Is any limit honoured? | a limit that is not a multiple of the page |
| `order_lines` | Are synonym groups the declared ones; is only a unique equivalence certain, and none lost; are clear orders read and drafted as they are meant? | all pairs of small products, all small alias tables, limit 1; orders of 2 items in every form, 8 numbers in words, names with numerals |
| `preview` | Is what is stored what was said; can every single required action be carried out, and does following them end in a ready preview? | 3 texts of 1 or 2 lines, 2 products, 2 catalogues, namesakes among customers |
| `preview_stale` | *(violation)* Is a confirmation made for another line refused? | 1 text of 2 lines |
| `update_safety` | Is only the named order written and answered with; is an undisturbed update exact; when do lines lose their ids; is an order missed only beyond a full page? | 2 updates, 1 void, 2 orders with numbers that contain each other, pages of 1, 2 values |
| `conversations` | Do credentials, grants, previews and sessions stay where they belong? | 4 calls, 6 kinds of legacy and 4 of WorkBuddy requests, a cache of 2, shutdown |
| `oauth_safety` | Are codes and refresh tokens spent once, is only what was granted asked of the ERP, are bindings always there, dead tokens dead? | 1 client, 2 authorizations, 2 submissions, 3 pairs, 2 keys, 1 tool call, 1 revocation that finds nothing |

Why these bounds are enough to be of interest: every cap is at 1 or 2, so
eviction happens at once and interacts with everything else; three calls allow
one to hold a lock, one to wait and one to arrive late; two versions allow an
overlapping load to be older or newer; a limit below and one above
`auto_sync_limit` tell a list cut on request from the shared ones; pages of 2 over
4 products give full, partial and empty last pages with changes in between, and the
limits 1 to 4 end below, on and behind a page; four calls are the least
for a cache of two to tell recently used from recently made; two orders, one
of whose numbers is part of the other, fill a page of one row. The order-lines
run enumerates its inputs completely within its alphabet; two items are the
least for what comes before to decide how the next is cut off. Deadlock is not checked
in runs whose calls are used up or whose loads end; submissions can always be
restarted, so there it is.

Bounds that are part of modules: `MaxVersion` caps `ErpChanges`, `MaxCalls` the
calls of Conversations, `MaxPages` the page counter (no load reaches it, for
every page but the last is full), `Products` the list in ProductPaging,
`MaxItems` the items of an order; calls, authorizations, submissions and grants
are used once each.

### What the violations show

- `submission_undecodable`: `adapters.py:621` catches status and transport
  errors of httpx, not `DecodingError`, so an answer with a broken body
  encoding leaves no mark and the preview can be sent again, against
  `docs/architecture/mcp-reliability-update.md:12`. The constant
  `BodyMayNotDecode` switches this off for the properties that hold otherwise.
- `paging_limit`: the page size is narrowed for the last page although the page
  number counts full pages (`adapters.py:180`), so a limit such as 150 is not
  reached.
- `preview_stale`: a confirmation whose line was taken out of the text is
  accepted for the line that took its number if that line has no candidates
  (`session.py:304`), against
  `docs/architecture/ai-billing-tools-api-matching.md:473`.

### What the properties do not promise

- **A catalogue is not the whole list.** Every load that names no limit, cold,
  synchronised or in the background, is cut at `settings.auto_sync_limit`
  (`toolset.py:582-587`; 10000 by default, `ERP_BILLING_AUTO_SYNC_LIMIT` sets it),
  although the docstring of `sync_products` calls it a full synchronisation
  (`toolset.py:502`). A longer list is cut for the whole tenant, and nothing tells
  the agent. `SyncIsCurrent` promises what the ERP held after the request up to that
  limit; `PartialStaysPrivate` is about limits a conversation named itself.
  `NothingMissed` says what a limit gets to (`Within`): all of it if it is less
  than a page or a multiple of the page size, the full pages below it otherwise
  (`paging_limit` shows the rest).
- **A revocation may spare the other token.** If the process dies between the two
  commits of `revoke_pair`, or the token named has expired, a (retried) revocation
  finds nothing, answers success, and the paired token stays accepted.
  `DeadStaysDead` holds a revocation to what it found.
- **Ids of an effective order's lines may be lost in a race.** `update_sales_order`
  merges by the status it read. If another update posts the order between this read
  and the `PUT`, items without ids replace the lines of an effective order.
  `LinesKeepIdentity` names this as the one exception and forbids all others.
- **Updates of others may be lost.** `UndisturbedUpdateIsExact` only speaks of an
  update that finds the order as it read it.
- **A confirmation may not go with a new text.** `NoDeadEnd` says of every single
  required action that it can be carried out, and that the next call accepts the
  lines and confirmations of the form, if no other catalogue was installed since.
  Asked for an order text the agent may write one that what it had confirmed before
  does not fit; the call refuses it and it starts afresh (`Afresh`).
- **When a result is remembered.** `TruthfulAnswers` and `SuccessIsSettled` would
  also hold if a result were remembered only after the order-number lookup: the
  preview is consumed before, so a retry would be refused instead of replayed.

### Where order texts are misread

`Clear` (OrderText) says which orders are read as they are meant. What it leaves
out, besides texts that mean two things, are three disagreements with the
documentation, met while modelling, and a unit that begins like a number:

- A blank after the number of an item said count first is kept in the first item
  only; later it separates number and name, and the order is refused
  (`session.py:78`, against
  `docs/architecture/ai-billing-tools-api-matching.md:362`).
- A number in words with a zero is read from its last part: 一百零五斤 is 5 of a
  product called 一百零 (`session.py:36`, against line 555 there).
- A request prefix is cut off a product name that begins like one: 加多宝 becomes
  多宝 (`session.py:569`, against `session.py:281`).
- 千克 begins with a numeral: in 五千克 it is read as 5000 克, and 十千克 is refused
  (`session.py:24-25`). `UnitIsClear` leaves such units out.

### Fairness

- Submission and CatalogState: weak fairness of the turns at the lock (the
  asyncio event loop runs a coroutine whose lock is free; `asyncio.Lock` is
  first come, first served) and of the end of an ERP request (httpx has a
  timeout, so it ends with an error at the latest). Nothing is assumed of
  clients, of the ERP or of the process staying up.
- ProductPaging: weak fairness of fetching the next page, for the same reason.
- SalesOrderPreview: `ObedienceEnds` is about an agent that does what the
  required actions ask, as `prompt.py:111` tells it to, and an ERP that answers
  searches: searches that fail or push references out of memory are left to the
  safety properties. This is a promise of the environment, not of the server. Agents that
  err, edit the text or repeat themselves are in the safety properties.

### Assumptions about the outside

- A 4xx answer or a business error code of the ERP's create request means that
  nothing was created; other failures leave it open. The code takes any HTTP 200
  object whose `code` is not `A00000` for such an error, one without a `code`
  included (`adapters.py:155-163`).
- The ERP answers a page from its list as it is then, with its length. It does
  not touch a voided order. Its reference search finds names and codes, not ids.
- Shutdown (`Close`) comes after uvicorn has drained the calls in flight.
- Login ids contain no `-`, so a session key names one login and conversation. Those
  of the ERP are numbers, but `app.py:122-129` joins login and conversation without
  looking at them, and the tests use `user-1` (`tests/billing/test_app_identity.py:43`):
  with such ids two keys could be one, and `CredentialIsRecent` and
  `PreviewStaysInConversation` would not hold. Digests (WorkBuddy's, and those of API
  keys) do not collide.
- No catalogue is empty (`catalog.py:103` refuses to make one), and its hits are
  products of it. A reference id stands for one kind of reference.
- What an item of an order is (`ItemsAssumption`): one name, or two said with
  "each"; no name holds a separator, "and" or "each", no unit a digit or a
  separator, and a count of nothing is said in digits.
- The agent has something to order and something to call every reference, an id
  it writes is one of the kind, and for a reference that is not found it has
  another name (`AgentAssumption`; otherwise no answer could lead it on).
- Prices are not negative and amounts not too large: the refusals of a preview that
  is ready but for these (`toolset.py:1560`, `1637`) are left out of `Reply`, and with
  them a dialogue that ends in such a refusal.
- An order's confirmations are one per line; date, remark and save type are
  folded into one early rejection (`RejectedAtOnce`).

## 4. Proofs

All are checked by TLAPS for arbitrary constants within the modules' named
assumptions.

| Module | Theorem | Says |
|---|---|---|
| SubmissionProofs | `TypeCorrect` | `TypeOK`, caps included |
| SubmissionProofs | `NoDuplicateOrder`, `OnlyRefusedIsResent` | if response bodies decode: `AtMostOneOrder`, `ResendOnlyAfterRefusal` |
| SubmissionProofs | `OnlyUndecodedRepeats`, `DoubtIsNeverResent` | what is left of these two however bodies decode: `OnlyEscapesRepeat`, `ResendOnlyAfterAnswer` |
| SubmissionProofs | `SessionIsLedger` | if response bodies decode: `Spec => ImplementsLedger` |
| SubmissionProofs | `MarksFollowDoubt`, `AnswersAreTrue`, `KnownOrdersStay`, `ReplaysAgree` | `MarksAreExact`, `TruthfulAnswers`, `SuccessIsSettled`, `ReplayMatchesOriginal`, however bodies decode |
| SubmissionProofs | `PromiseKept` | in the ledger no preview becomes two orders |
| CatalogProofs | `NeverOlder`, `SyncAnswersCurrent`, `OneLoadForAll`, `ShortListsStayPrivate`, `NothingAfterClose`, `TasksReplaceOnlyStale` | all safety properties of the `catalog` run |
| PagingProofs | `PagingInvariant`, `NoProductMissed` | `NothingMissed`, for any list, page size and limit |
| PreviewProofs | `PreviewInvariant`, `PreviewIsConfirmed`, `ReferencesNamed`, `AlwaysAWayOn` | all safety properties of the `preview` run |
| MatchingProofs | `MatchingInvariant`, `GroupsAreDeclared`, `UniqueIsCertain`, `CertainIsKept` | the matching properties of the `order_lines` run, for any products, aliases and order of the search |
| MatchingProofs | `OrdersKeepPromises` | the same while orders are read |
| MatchingProofs | `OrdersAreRead`, `OrdersAreDrafted` | `ClearOrdersAreRead` and `OrderedIsDrafted`, for any number of items, any names and units, and every count below 10000 |
| UpdateProofs | `UpdateInvariant`, `IdentityKept`, `UndisturbedExact`, `AnswerNamed`, `OnlyNamedWritten`, `MissedBeyondPage` | all properties of the `update_safety` run |
| OAuthProofs | `OAuthInvariant`, `SingleCode`, `SinglePair`, `TokensBound`, `Granted`, `Dead` | all properties of the `oauth_safety` run |
| ConversationsProofs | `ConversationsInvariant`, `CredentialsAreRecent`, `OnlyGrantedWrites`, `PreviewsStay`, `OneSessionEach` | all properties of the `conversations` run |

**NoDuplicateOrder.** `AtMostOneOrder` is not inductive: a state with one order
and a preview that is still usable satisfies it and breaks it one step later.
`SafetyInv` adds that the lock is held exactly by the call between its awaits
(`LockInv`), that requests are about issued previews (`ProgressInv`), that kept
previews are issued and kept once (`PreparedInv`), and the heart of it
(`CleanInv`): a create request that was neither refused nor ended by a body that
does not decode, for a preview that can still be submitted, belongs to the call
that holds the lock. So when another call gets the lock, the previews it can send
are clean; `AtMostOneOpen` follows, and with it `OnlyEscapesRepeat`: two orders of
one preview need a call that such a body has ended. Lemmas say what trimming,
storing, consuming and marking do to the lists. `AtMostOneOrder` itself needs
`BodyMayNotDecode = FALSE`: `submission_undecodable` shows why.

**Answers.** `AnswerInv` ties what a call answered to what became of its request,
and says that a call that knows its order has taken the preview out of reach;
`ResultInv` that the kept results, one for each key, are those of the calls they
name; `ReplayInv` that a replayed order is one whose call had already answered.
None of it needs to know when a preview may be sent.

**Marks.** A call that ends in doubt marks its preview in the same step, unless the
preview is out of reach already, as it is when the call looks its order number up
(`AnswerInv`); a mark goes only when its preview does. A body that does not decode
ends the call with an exception, not in doubt, and leaves no mark: the marks stay
exact, and `DoubtIsNeverResent` names this one way to send a preview again that was
not refused.

**The session is a ledger.** A step maps to one of the ledger: `StorePreview`, with
what it evicts, to `Offer`, `SendCreate` to `Send`, what becomes of the request to
`Create` or `Discard`, a refused call's end to `Return`, an end in doubt, success and
`Restart` to `Withdraw`, all others to a stutter. That `Return` is allowed, the preview having no
order, is where `SafetyInv` is needed.

**Catalogue.** `LoadInv` says that the lock has an owner exactly while a locked
load is out (`LockIsHeld`), that nothing read is newer than the ERP
(`NothingFromTheFuture`), and that what a locked load read is at least as new as
the catalogue and as its own request (`ReadUnderLock`). The catalogue is only
replaced at the end of such a load, so it never gets older, and a synchronisation
without a limit answers with what was read after the request, cut at
`auto_sync_limit` (`EffectiveLimit`). `SharedInv` is
about who may load: a call that found no catalogue is the last to do so once one
is installed (`ColdLoads`), there is one background task at a time (`OneRefresh`)
and it found the catalogue stale (`TasksFindStale`); the shared catalogue is cut at
`auto_sync_limit` (`CatalogIsShared`), overrides at a limit their conversation asked
for (`OverridesAreAskedFor`).

**Paging.** `NothingBehind` says that a load that goes on has read full pages,
limited or not (a narrowed page is its last), and that whatever was there at the
start and lies before the load's position was read. An insertion only pushes
products away from what was read; a load ends at the end of the list or at its limit,
and every position `Within` the limit is on a page it has read by then
(`WithinLimit`).

**Preview.** `PreviewInv` ties an answer to the call it replies to. A call in
flight works on a draft that one catalogue accepted, whichever was installed since
(`Accepted`, `CallInv`), and every reference it is past was left out, named, or
left with something to choose (`Resolves`). An answer is the reply to the form
that is still there, computed from such a draft (`AnswerInv`); from this the three
properties follow without looking at steps again. `NoDeadEnd` is where the
assumptions about the agent are used: for each kind of required action there is a
form that carries it out (`Ways`), and what that form confirms is offered by, or
looked up in, the catalogue that accepts it (`ConfirmedAccepted`, `UnitAccepted`).

**Matching.** That the search finds whole groups needs no induction over paths:
`Linked` is what every closed set holds. The group being collected is closed but
for what is pending (`CollectInv`), so a finished one is closed under adjacency
(`GroupsInv`) and holds all that is linked to it; and whatever is added is linked
to what is there (`Connected`), so it holds nothing else. A configured pair is what
its alias stands for; a product's own is, if no alias is declared twice. Of
certain hits all score the same, so a limit keeps the first ones, and these are as
many as it allows (`FirstOnes`, by least elements: `LeastNat`). `OrdersAreDrafted`
follows from the reading of the order (below) and from names with one product
behind them having one certain hit (`KnownIsCertain`).

**Reading.** `ClearOrdersAreRead` says nothing of where in the text an item is, so
it cannot be kept from one item to the next, and an induction over texts is beyond
the provers. `ReadInv` adds the places: a clear order is laid out in its text
(`Layout`: where each item begins, how long it is, and what separates it from the
next). `Say` appends an item, so this is an induction over steps (`LayoutStarts`,
`LayoutGrows`), and the reading itself follows from the places without one:

1. Every count is read back from its digits and its words (`DigitsRead`,
   `WordsRead`), place by place: a number has at most four.
2. The text of one clear item, as a part, is read as it is meant (`ItemIsRead`):
   the right one of the four patterns matches, and at the right place, because no
   number before it is followed by a unit (`RunStops`, `NotCounted`), and what is
   left of the name is the name (`CleanNameIs`).
3. A text that is laid out is cut exactly between its items (`CutsAre`): a blank
   separates behind digits and a listed unit if more than a request is before it
   (`BlanksEnd`), and no blank inside an item does (`EndsBetween`). So the parts
   are the texts of the items, in their order (`BeginIs`, `PartsAre`), and
   `ClearTextIsRead` puts the two together.

The proof corrected `Clear`, which had been right only for the names and units of
the run: a name may not begin with a number and a listed unit (it is read as a
quantity that comes first: `BeginsCounted`), a listed unit is nothing more than
one, and no unit holds a numeral or "each".

**Updates.** `FoundIsNamed` says that a call works on an order it named, resolved
at most once and before its `PUT`; `PutIsMerged` that a `PUT` is out only for an
order read and a change the merge accepts, and that neither changes afterwards;
`StatusOnlyRises` that while it is out the order's status has only gone up since the
read, and up to effective only by another update, which is what `IdentityKept` needs
of the race; `AnswerIsOfTarget` that the number a void keeps to answer with is the one of the
order it named, although it was looked up separately. `MissIsBeyondPage` is about
sets: a page that is not all hits is full, so there are more hits than fit.

**WorkBuddy OAuth.** The table alone is not inductive, because a crash may fall
between two commits. `OAuthInv` relates it to the commits the running handler
still owes: what it will answer with was never answered before (`JobIsNew`), a
code or token is stored after its binding (`JobIsBound`), the rows that come of
the same code, its rivals, are deleted before (`JobClears`), and before the
answer leaves, what it rules out is gone (`JobEnds`). A prefix of such commits
leaves a table with the same properties, so `Crash` may drop the rest. From
`NoRivals` follow that a code has one pair and that a dead token stays dead (a
revocation that finds nothing changes no row, and names a token that has none); from
`PairsKnown` that scopes only narrow along refreshes.

**Conversations.** `CallsAreBound` says that a call runs with the context of its
own request, in a session made for its conversation; `CacheIsKeyed` that the
cache holds at most one session of a conversation, under its key;
`CredsAreRecent` that the credential kept for a conversation was brought by its
latest call. The lemmas about the cache say only that a used, stored or dropped
entry adds none but the new one: with that the order of the entries, and so
which one is evicted, does not matter.

**Ledger.** A preview is never usable, under way and an order at once;
`OrdersAreOffered` is needed for `Offer`: an id that is not offered yet has no
order.

## 5. Only model-checked

- Liveness under fairness (`EverySubmitAnswered`, `EverythingEnds`, `LoadEnds`,
  `ObedienceEnds`), which the prover does not handle. Every safety property of a
  passing run is a theorem.
- That `AtMostOneOrder`, `ResendOnlyAfterRefusal` and `ImplementsLedger` fail when
  a body does not decode: one counterexample (`submission_undecodable`) is all
  there is to show.

## 6. Not modelled

- The list and detail tools, beyond what updates and voids use of them: they pass
  a page or an order on.
- The sign and the decimals of digit numbers in order texts.
- The validators of `updateSalesOrder` and its reference resolution: they refuse
  before any request, and are folded into the change being acceptable.
- OAuth pages, encryption, metadata and the schema of the table; PKCE and the
  endpoint handlers belong to the OAuth library.
- Of the transport (`gjp_common.mcp`): tool export, schema check, argument errors,
  logging. The rest of `call_tool` is part of Conversations.
- Tool schemas, record conversion, configuration, logging and prompts: data, or
  text.

## 7. Plan

Done, in this order: Submission and OrderLedger; CatalogState; WorkBuddyOAuth;
ProductPaging; SalesOrderUpdate; SalesOrderPreview; ProductMatching;
Conversations; then order queries and voids in SalesOrderUpdate, registration,
scopes and tool calls in WorkBuddyOAuth, OrderText and OrderLines, the WorkBuddy
entry and the contexts of tasks in Conversations; the proofs of section 4.

Next:

1. The sign and the decimals of numbers in order texts, and digit numbers from
   ten thousand on.
2. Look into what the repository promises nothing of yet: a revocation that finds
   nothing and spares the paired token (`workbuddy_oauth.py:389`), the cut of the
   shared catalogue (`toolset.py:582`), and the eviction order of remembered
   references (`session.py:382`).
