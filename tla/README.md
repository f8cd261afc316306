# A verification project for the Whale tracking blocker

TLA+ modules, TLC configurations and TLAPS proofs about the code under `src/`:
the tracking-protection part of the Whale browser, derived from Brave.  Paths
below are relative to `src/`; `cc` alone is
`net/whale_proxying_url_loader_factory.cc`.

## The system

| Component | State it keeps | Operations | What makes it correct |
|---|---|---|---|
| **Proxying URL loader factory** (`net/whale_proxying_url_loader_factory.*`) | the pipes of its clients, the pipe to the network service, the set of requests in progress; each request: its `ResourceRequest`, context, loader, client, a held `FollowRedirect`, `request_completed_` | `CreateLoaderAndStart`, `Clone`, errors of either end; per request `FollowRedirect`, `SetPriority`, pause, resume, `OnReceiveResponse`, `OnReceiveRedirect`, `OnComplete`, the client's disconnect | client, proxy and loader agree on where the load is and on what it is to carry; nothing is freed early, twice or never; every request ends |
| **Query filter** (`net/whale_query_filter.*`) | none (three tables) | `ApplyQueryFilter`, `ApplyPotentialQueryStringFilter` | trackers go, everything else stays, what goes is reported |
| **Site hacks hook** (`net/whale_site_hacks_network_delegate_helper.*`) | none | `OnBeforeURLRequest_SiteHacksWork`, the referrer block | the internal redirect is asked for exactly when the filter changed the URL; the referrer is capped |
| **Request context** (`net/whale_url_context.*`) | a snapshot of the request and the settings; `internal_redirect` and `redirect_source` survive | `MakeCTX` | the surviving fields are right at the next hop |
| **Resource context data** (`net/resource_context_data.*`) | the factories of a profile, an id counter | `StartProxying`, `RemoveProxy` | a factory is owned while it is needed, ids are unique |
| **Shields data controller** (`whale_shields_data_controller.*`) | what a tab blocked, a keep flag, observers | `HandleURLParamsBlocked`, `HandleItemBlocked`, `ClearAllResourcesList`, the switch | the record is that of the page shown, observers hear of every change |
| **Tracking blocker settings** (`tracking_blockers/`) | content settings of the profile (outside) | get, set and reset the level, `MaybeChangeReferrer` | pages see the level the user chose |
| **Navigation hooks** (`navigation_request_whale.cc`) | none | hide the referrer at start and redirect | every request of a navigation is capped by its own target |
| **PAC timeout monitor** (`net/proxy_config_monitor_whale.cc`) | a stored count, a per-launch flag | count, reset, info bar | one count a launch, the streak decides |
| **Session cache** (`whale_session_cache.*`, event and WebGL overrides) | per execution context: a level, a domain key, cached integers, an audio helper | pseudo-random answers | the same for a session and a site, in range, from a key that was filled in |
| **Audio farbling** (`whale_audio_farbling_helper.*`) | a factor, a seed, the maximum flag | five copies of samples | the window of the call, order kept, deaf at the maximum |
| **Cookie expiry** (`restricted_cookie_manager_whale.*`) | none | `ModifyExpiration` | at most seven days, session cookies stay such |

How they interact on a load: the profile's *resource context data* makes a
*factory* for a frame; a client calls `CreateLoaderAndStart`; the request makes
a *context* (which asks the *settings* for the tab's origin) and runs the *site
hacks hook*; if the *query filter* changed the URL, the tab's *shields
controller* is told and the client is sent an internal 307 in place of a
response; otherwise a loader is made in the network service, whose redirects,
response and completion pass through the request to the client.  A client
answers each redirect with `FollowRedirect`, and the request starts over.  A
navigation's own referrer is capped by the *navigation hooks*, beside this.
The farbling classes, the cookie hook and the PAC monitor share nothing with
the rest, but farbling has a level of its own and the audio helper and the
session cache share a shift register.

What is hard here: all handlers of a load run on the UI sequence, but their
order is that of messages on four kinds of pipes, each of which may close at
any time; a redirect leaves the request waiting for an answer, with state
carried over from the hop before; an internal redirect throws the loader away
while its messages are on the way; the factory outlives its pipes for its
requests and must be deleted by whichever goes last; the user may change
settings between any two hops or two questions; the network service or the
browser may crash; the audio thread writes while a script reads.

`PROJECT.json` lists these hazards with the line where each bites and the
properties that would catch it.

## Modules

| Module | What it models |
|---|---|
| `WhaleQueryFilter` | the query filter, the hook's query part, the context, as operators |
| `QueryRemoval` | reference: a hand that takes one tracker after another out of a URL; what the filter is held against |
| `TrackingBlockersUtil` | content settings, levels and the referrer cap, as operators; extends `WhaleQueryFilter` |
| `WhaleShieldsDataController` | a tab's record of removed parameters, as operators |
| `WhaleProxyingURLLoaderFactory` | the core: one factory, its requests, clients and the network service; extends the query filter and the record |
| `ProxyFactoryLifetime` | abstract: what a factory promises of its own life and its requests' |
| `URLLoaderForwarding` | headers, referrer, priority and reading of a request, on top of every step of the core; extends it and `TrackingBlockersUtil` |
| `ResourceContextData` | the factories of one profile, their ownership and ids |
| `ShieldedTabs` | tabs of one profile with their whole controllers, navigations, observers and the settings they share; composes `TrackingBlockersUtil` and `WhaleShieldsDataController` |
| `NavigationReferrer` | the referrer of one navigation over its redirects |
| `PACScriptDownloadMonitor` | launches, crashes, the stored count and the info bar |
| `WhaleSessionCache` | the caches of execution contexts and what scripts ask of them |
| `FarblingLFSR` | the shift register and the pixels it picks, as operators on words of any width |
| `WhaleAudioFarblingHelper` | the copies of samples beside the audio thread; extends `FarblingLFSR`, whose register it moves |
| `RestrictedCookieManager` | cookies in a store, over days and restarts |
| `..._proofs` | the theorems; those about `URLLoaderForwarding` follow those about the core it extends, in `WhaleProxyingURLLoaderFactory_proofs` |
| `MC...` | instances for TLC; `MCWhaleQueryFilter` also holds the rows of the unit tests as an assumption |

### The core, and how it corresponds to the code

Variables have the names of the members they stand for.  `target_factory_` is
`is_bound()` of the remote, `proxy_receivers_` counts the pipes,
`in_progress[r]` holds the fields of r's `InProgressRequest`, of which
`ctx_` keeps only the two fields that outlive a phase: every phase makes its
context anew (`MakeCTX`), and the rest of it is a function of the request and
the setting.  `client`, `follow`, `loader` and `from_net` are the outside: the
client's view, the two queues, the loader.

One action is one handler, whole.  `Restart` runs synchronously to its end in
the code (the continuation is called, never posted), so
`CreateLoaderAndStart` and `FollowRedirect` include the hook, the internal
redirect or the start of the loader, and the report to the tab.  `OnComplete`
and `OnClientDisconnect` include the removal of the request and of the factory.

Abstractions, each with its reason:

* A URL is a scheme, a host, a path and a query that is already split at `&`
  and `=`.  The conditional rule's regular expression is a choice of two words
  and is a membership test; registrable domains are a function of the host.
* What the proxy sends a client is received when it is sent.  The client
  reacts later, by actions of its own; a disconnect is also noticed later
  (`ClientCloses`, then `OnClientDisconnect`).
* Closing a pipe of the factory is received when it happens: nothing else is
  ordered against it, since every call of `CreateLoaderAndStart` that comes
  after the last close comes on no pipe at all.  `OnTargetFactoryError` is an
  event of its own after the crash.
* A request has one loader slot: `HandleBeforeRequestRedirect` resets both
  ends, so messages of a superseded loader are never received.
* The `request_initiator` is an origin or opaque.  A request without an
  initiator is opaque too: the filter treats both alike, and tainting one
  cannot be told from leaving it.
* The setting is a flag that may flip between any two handlers.  It stands for
  `GetTrackingBlockerEnabled` of the tab's committed origin, which changes when
  the user changes it or the tab commits a page of another site; what it really
  is, is in `ShieldedTabs`.
* `OnUploadProgress` and `OnTransferSizeUpdated` hand a number to the client
  and change nothing, `OnReceiveEarlyHints` is empty; none is an action.
* `removed` is the call of `disconnect_callback_`.

### The other modules

* `URLLoaderForwarding` conjoins each step of the core that touches a request
  with what it does to `fields` (headers and referrer of `request_`) and to
  `at_loader` (what the bound loader goes by).  A new loader copies `request_`
  and the priority first asked for; a bound one gets only what `FollowRedirect`
  carries.  `wanted` is what the client has asked for since the start.
* `ShieldedTabs`: a map from patterns to settings, where a pattern is a host or
  the wildcard; one action per entry point of the controller, each with the
  calls on observers it makes.  `StartNavigation` and `LoadSubresource` are the
  same hook, with the setting of the committed page as the code has it.
  `reports` is history.
* `NavigationReferrer`: the two hooks call the embedder's `MaybeHideReferrer`,
  which is outside this repository and stands here for `MaybeChangeReferrer`
  with the profile's map, the only function of it that takes one.  The referrer
  policy in between may keep, trim or drop the referrer.
* `PACScriptDownloadMonitor`: `pref` is in memory and `disk` is written some
  time later or on quitting; a crash returns to `disk`.  `timeouts` is history,
  and a crash with unwritten changes sets it back to what it was `before` the
  launch: a launch changes the count once, so it loses all it did or nothing.
* `WhaleSessionCache`: a context's kind says what the constructor finds out
  about it.  Memory the constructor leaves alone is any of `Garbage`.  Each
  generator is a function of the key and the `FarbleKey`; that it is seeded
  anew at each call is the code's.  Only the coordinates and the windows' sizes
  change a cache; a behaviour watches one coordinate or all the other answers,
  chosen at the start, and everything may be asked at any time.
* `FarblingLFSR` has words of `Width` bits as functions; the code's width is
  64.  The run takes 4, the theorems any.  The number a word stands for is a
  recursive function over its bits from the top down, which a proof can use.
* `WhaleAudioFarblingHelper`: samples are integers and the factor is in
  hundredths, which keeps scaling and clipping exact.  The audio thread writes
  sample by sample between any two copies, in any order within a quantum, and
  moves its index after it.  It waits for no script: nothing in the code keeps it
  from coming round to the window that is being copied, and it does.
* `RestrictedCookieManager`: time is in days, nought is the null time.  The
  feature's switch is read at every call and may differ from launch to launch.

A definition `F_Word` that stands just before `F`, as `RedirectSource_Late`
before `RedirectSource`, is a faulty variant of `F`.  Nothing uses it; put in
the place of `F` it breaks a property, which shows that the property depends on
that line of code.

## Runs

| Run | Shows |
|---|---|
| `query_filter` | For every query of up to 3 parameters out of 8 kinds (plain, simple tracker, scoped, conditional, one holding the text the conditional rule looks for, no value, empty, leading `=`), on 2 hosts and 2 paths: `FilterCommutesWithRemoval` - two passes of the filter lead to the same URL as taking trackers out singly, in any order, each time reading the URL afresh; one pass does not.  `ReportIsTheDifference` - the names reported are those that are in the URL and not in the filtered one, each of them and no other, and none exactly if the URL is left alone.  The rows of both unit tests are the assumption `UnitTests`. |
| `factory` | One request from one site to the other, GET or POST, through internal and server redirects of which 2 are followed, a URL that needs two passes, 2 factory pipes, a crash, a setting that flips: `ClientContract`, `LoaderContract` (nobody is sent a message it has no use for), `URLAgreement` (the three parties' URLs are the same up to what is on the way), `NoLoaderMeansParked`, `SilentEndOnlyAtRedirect`; `NoTrackerOnTheWire` - with the blocker on, no cross-site GET goes out with a tracker, where the redirecting server's URL is taken from the loader and not from the proxy's own note of it; `RemovalIsReported` - of a new request as well as of one that goes on after a redirect; `FactoryLifetime`, and `LifetimeSpec`, the refinement of `ProxyFactoryLifetime`; `RequestsEnd`, under `Fairness`. |
| `contexts` | 2 factories, 2 requests each: `OwnedWhileNeeded`, `IdsUniqueInFactory`. |
| `forwarding` | One request for an image or a frame, 2 followed redirects, one header, a crash, a level that changes: `LoaderHasClientHeaders` - a loader goes by the headers of all the client's `FollowRedirect`s, whatever loaders and internal redirects lay between; `ResumeIsNeverLost` - no load stalls for a resume that was dropped; `PriorityIsLostWithTheLoader` - in no other way; `NewLoaderIsCapped`. |
| `tabs` | One tab, 3 pages of 2 sites and an extension, no default at first, every switch, every type a settings page sets: `RecordIsTheStreak` - a parameter is in the record exactly while every page since its report had one too; `SwitchIsExact`, `ChangesAreAnnounced`. |
| `navigation_referrer` | 4 pages on 3 sites over https and http, 2 redirects, every map of levels: `CappedForMaxLevel`. |
| `pac` | Launches without end, at the code's threshold of 5: `StreakDecides`, over crashes before and after the count was written, `OncePerLaunch`, and `InfobarReturns`, a liveness property whose premise is the repeated timeouts themselves. |
| `audio` | A ring of 6, windows of 2 and 3, 10 samples, both flags, all five calls, every seed of 4 bits: `ReadsTheWindow` - a value is the sample of its place in the window of the call, or one that the audio thread put in that place whole rings later; `OrderIsKept`, `MaximumIsDeaf`; of the register in each state, `NeverZero` and, for images of 4 to 13 bytes, `PixelsInside`. |
| `cookies` | One name, 3 writers, 12 days, ages below, at and above a week: `GoneInAWeek`, and `CookieExpirationTest`, the browser test's expectations. |
| `session_cache` | Two contexts of seven kinds, every question, four devices: `KeyIsFilled`, `ToldTheSame`, `Plausible`, `OneStoryPerSite`. |
| `stranded`, `ids` | the first two of the disagreements below |

Bounds.  Requests share no state but `requests_` and the target, so one
request suffices for what concerns a request; what concerns several, the life of
the factory, is proved for any number.  Two followed redirects, with a third on
the way, reach every sequence of two kinds of redirect and the state after the
second internal one; two factory pipes distinguish the last close from one
before it; URLs cover same and other site, clean, tracked and tracked after one
pass.  Queries of three parameters hold a conditional tracker, the text that
keeps it inside another tracker, and a third of any kind.  `MaxId` is above what
the runs can count, and is not reached as a limit in `contexts`.  Three pages
are a page whose record is kept, the next that ends it and one more.  Tabs share
the settings and nothing else, so what another tab does to one is what the
settings page may do, for any URL.  Twelve days pass the week of a cookie
written on the first days, and of one written again later.  The audio ring is
twice the largest window, as in the code's caller; ten samples fill it and, in
most calls, come round to the window while it is copied.
Four bits let the register visit words of every shape; every width is the
theorem's.  Contexts share only the level of their site, and two of them tell
one story or two.  In `query_filter`, `contexts`, `tabs` and
`navigation_referrer` the system really stops (nothing left to remove; all
factories gone; the tab is closed; the navigation is committed and hops are
used up), so deadlock is allowed there; elsewhere it is checked.
The type invariants of `ResourceContextData`, `RestrictedCookieManager` and
`WhaleSessionCache` are in no run, since they are proved; the strengthenings
below were each checked by TLC as invariants of the run of their module before
they were proved (`OnePath` apart, which speaks of paths of any length).

Fairness, in `factory`.  A message that was sent is handled (`WF` on the
request handlers and on `OnTargetFactoryError`: posted tasks run); a loader
that loads redirects, responds or completes sooner or later (a network timeout
is a completion); a client that was told of a redirect follows it or closes.
No fairness on new requests, on closing a pipe of the factory, on settings or
on the crash.  With `MaxFollows` reached a client closes: browsers limit
redirects.  `InfobarReturns` needs no fairness: that timeouts are counted again
and again is its premise.

## What the code does that its comments do not say

* `stranded`: cc:217-218 says a new loader is made after `FollowRedirect`.  If
  the last client pipe of the factory closes while the request is parked at an
  internal redirect, `OnProxyBindingError` resets `target_factory_`, the factory
  stays for the request, and the test at cc:309 then silently does nothing: no
  loader, no error, until the client gives up.  `RequestsEnd` therefore exempts
  this case by name (`Stranded`).
* `ids`: cc:507-509 says ids are unique per BrowserContext.  Each factory counts
  on its own from its value of `next_request_id()`.

Others were met in reading the code and are modelled as the code has them,
without a run of their own:

* `tracking_blockers/tracking_blockers_util.cc:148-149` says the referrer is
  capped.  The cap is written to `request_` (cc:278-280), which only a new
  loader is given; a loader that a server redirected gets `FollowRedirect`,
  without it.  `NewLoaderIsCapped` is therefore about new loaders.
* `net/whale_query_filter.cc:176` says internal redirects are ignored.  That
  return is under a valid `redirect_source`, which an internal redirect clears
  (cc:391-392), so the URL is filtered again.  As the first pass can remove the
  text that kept `mkt_tok`, a second internal redirect follows.
  `FilterCommutesWithRemoval` shows two passes are enough.
* `net/whale_query_filter.cc:165` speaks of the destination URL; the setting is
  that of the tab's committed page (`net/whale_url_context.cc:55-72`).
* `net/proxy_config_monitor_whale.cc:36` says over; line 64 says at.
* `whale_session_cache.cc:160-162` says a device of 0.25 is told 0.25; it is
  told 0.5.

## What is proved

Every safety invariant and every action property that a run checks is a theorem
too.  Every theorem is for any values of the
constants within the named assumptions of the module.  The argument, module by
module:

* `WhaleProxyingURLLoaderFactory_proofs`, the core.  `TypeCorrect`: the conjunct
  that is more than a type - a request in `requests_` has fields of its own, with
  a URL that is not empty - makes `TypeOK` inductive; one lemma per handler,
  `RestartType` for the common part.
  `LifetimeCorrect`: `removed` is set by `MaybeRemoveProxy` alone, which every
  handler that unbinds the target or ends a request calls after its last
  change.  `ImplementsLifetime`: the mapping is `open` for `target_factory_`,
  `active` for `requests_`, and `ended` for requests whose client once asked
  and that are in progress no more; the strengthening says that a request in
  progress has been asked for.
  `ClientCorrect`, `LoaderCorrect`, `URLCorrect`, `ParkedCorrect` and
  `SilentEndCorrect` come from one inductive invariant, `InStepInv`.  `Stage`
  says, for a request in progress, where its client, its fields, its loader and
  the two queues can be together: `ClientSide` (what the client may have on the
  way), `NetworkSide` (what the loader may have on the way: nothing told yet, a
  redirect waiting, a response told, each perhaps with a failure behind it or a
  dead service) and `URLs`.  The contracts alone are not inductive: that no
  second answer follows a completion needs to be known before the first one is
  received.
  `WireCorrect` and `ReportCorrect` are about steps.  What `Restart` does next
  depends on `redirect_source`, a field set two handlers earlier, and the
  property reads the loader in its place; `SourceInv` ties them: a request
  without a loader has no source, and a loader that waits for an answer is at
  the source.  Each step then either starts no load, or is a `Restart` whose hook
  left the URL alone; and where it did not, be it for a new request or for one
  that goes on, the report precedes the redirect.
* The same module, `URLLoaderForwarding`.  `ForwardImplements`: each step is one
  of the core's, so all that is proved of the core holds.  `HeadersCorrect`,
  `ResumeCorrect` and `PriorityCorrect` come from `ForwardInv`: as long as a
  request is in progress, its own headers and what an answer holds for it make up
  what the client asked for, a bound loader goes by exactly the request's
  headers, and by the client's last priority if it is the first; a paused loader
  is one that the client wants paused; and a request that has no loader has
  nothing of one left.  `CapOnTheWireCorrect` rests on `OriginURL` being
  idempotent: a referrer that an earlier hop capped is capped as before.
* `ShieldedTabs_proofs`.  `RecordCorrect` from `Kept`: the record is that of the
  unbroken run of pages with reports, the keep flag says whether the present
  page has one, and a navigation under way has a URL.  The flag has to be
  related to the history, since a commit empties the record or not by the flag
  alone.  `SwitchCorrect` and `AnnouncedCorrect` rest on
  `OnlyMatching`: what is written for a pattern decides for the URLs it matches
  and for no other, so a step that announces to the tabs the pattern matches
  has announced to all that show something else.
* The same module, `WhaleQueryFilter` and `QueryRemoval`.  `Without`, the members
  of a sequence that are not in a set, is a recursive function; lemmas by
  induction on the sequence say what it leaves (`WithoutRange`), that two of them
  are one (`WithoutTwice`), that only the members decide (`WithoutAlike`) and that
  it distributes over concatenation.  A URL's parameters are `Hard` (gone from
  every URL of the host) or `Soft` (kept by a text); the first pass may take the
  last such text, so `Final`, what two passes leave, is without `Hard` and,
  unless a text stays without it, without `Soft`.  `RemovalCorrect`: no step of
  the hand changes `Final`.  `DifferenceCorrect`: a name decides for all
  parameters that have it, so that a name that is reported is in the URL and in
  no parameter that is left.  `PassesSettle`: there is nothing left for a third.
* `ResourceContextData_proofs`: `OwnershipCorrect` and `IdsCorrect`, from
  `IInv`: a factory not asked for has nothing (`Fresh`), and the counter of one
  in use is ahead of every id it gave (`CounterAhead`).
* `NavigationReferrer_proofs`: the referrer is always nothing, the source page or
  its origin (`TypeOK`, inductive as it stands), and what the hook makes of one
  of these three for a target at the maximum level is within the cap.
* `PACScriptDownloadMonitor_proofs`: `IInv` is the types, `StreakDecides` and
  that the count changes only in a launch that has counted, so that before this
  the history is where it was at the beginning, which is where a crash leaves it.
* `RestrictedCookieManager_proofs`: a stored cookie has the expiry asked for or a
  week from its write, whichever applies and is earlier, and has not expired
  (`Limited`); the week's limit and the browser test's expectations follow.
* `WhaleAudioFarblingHelper_proofs`.  `NeverZeroCorrect`, bit by bit, at any
  width of at least three: a bit that is set moves down by one or, from the
  lowest place and with none beside it, comes in below the top; so a word with a
  bit set has one after the step, and every call starts from a seed that has one.
  `WindowCorrect`, from `Window`: slot `t % InputBufferSize` holds the last
  sample written at a time congruent to `t` (`Ring`), counting those of the
  quantum under way that have landed.  A quantum does not wrap (`QuantumFits`),
  so what a slot holds is one of the samples of the place the call reads it for
  (`SlotHolds`, `SlotOfSample`), and these only ever grow (`TimesGrow`).  Nothing
  is assumed of how far the audio thread gets; `UndisturbedCorrect` is what is
  left of it where it has not come round: the window itself, in order of time.
  `OrderCorrect` from `Window` and lemmas on scaling: each keeps
  order whatever the rounding.  `DeafCorrect`: two calls of one kind, of any
  lengths, answer alike as far as both go.  The invariant says that there is one
  path of the register from the seed (`Path`) that both the call under way and
  the one before it draw from (`OnePath`); a call that reads further than any
  before it lengthens it by a step.  `PixelsCorrect`: the pixel is a remainder,
  of a number that is natural because the recursive function `Number` is defined
  for every word (`NumberExists`, by induction).
* `WhaleSessionCache_proofs`: `KeyCorrect`, and `AnswersCorrect` from the
  invariant that the last answer is the one the cache would give again, where
  for a coordinate it is the kept offset.  `PlausibleCorrect` and
  `OneStoryCorrect` from `Sited`: a cache has the key of its own context's
  domain, if that has one, and each offset it keeps is the one this key decides.
  Without the second part two contexts of a site could have kept different
  offsets; that they did not follows only from how the first was drawn.

What the proofs assume, and why the code justifies it:

* URLs (`URLAssumption` of the core and of `ShieldedTabs`): filtering a URL gives
  a URL of the same set, a URL has a scheme, the empty URL is not one, and no
  host is the wildcard pattern.
* There is one conditional expression and it matches no empty text
  (`ConditionalAssumption`; `net/whale_query_filter.cc:102-105`).  With two,
  a text of one in a parameter of the other, a third pass could find more.
  The hand starts at URLs of any host, path and query (`StartAssumption`).
* Registers have at least three bits; 64 in the code.  The ring is a number of
  quanta and at least two windows, as `RealtimeAnalyser` has it, which calls the
  helper; samples are numbers, a louder sample has no fewer decibels.  A sample
  is read or written whole, and in the order of the program: on the machines the
  code is built for a float is, though the ring is shared without a lock and C++
  promises nothing.  How far the audio thread gets is not assumed.
* Generators give natural numbers, windows' coordinates and sizes have keys other
  than the pointer's, WebGL parameters have names other than the other questions',
  and a key the constructor left alone is none that it fills in.
* The settings page sets the control types of the code; thresholds, days and
  bounds are natural numbers.

What proving found.  `NoTrackerOnTheWire` could not be proved as it stood: the
hook lets internal schemes and `naver.com` pass
(`net/whale_site_hacks_network_delegate_helper.cc`), which the property did not
exempt and the instance did not contain; it says so now.  A URL with an empty
scheme would make a source that is there look like none, so the assumption on
URLs excludes it.  A pointer's key among a window's would let a window's size
fix the offset of a coordinate.

Model-checked only:

* `RequestsEnd` and `InfobarReturns`: liveness, with fairness, needs `ENABLED`,
  which is out of the prover's reach.
* The unit tests' rows, which are an assumption that TLC evaluates.

The two disagreements with comments are counterexamples, and TLC's.

## Not modelled

* The first match among a renderer's copy of the rules
  (`tracking_blockers/common/`): the order of the rules is made elsewhere.
* `GetTopDocumentGURL`'s base URL on Android, platforms other than Windows 10 in
  the PAC monitor (the file does nothing there), histograms and logs.
* Redirect limits (the client's and the network service's own), bodies, the
  contents of headers beside which one is set.  Headers exempt from CORS are
  carried, and lost at an internal redirect, but no property is about them.
* Floating-point rounding, HMACs and the generators' distribution: they are
  functions of their inputs here.
* `ControlType::INVALID`, which nothing under `src/` passes.
* The canvas loop runs at a small width and by itself, since `farbling_enabled_`
  is never set and nothing reaches it.
* Build files.

Modelled, with no property of its own: the key of a worker, which is of its own
origin, so that it need not tell what its page tells (`OneStoryPerSite` compares
windows); what a cache tells whose key was never filled in, at the level OFF,
beyond that it stays the same; the referrer that a redirected loader goes by;
and the device of 0.25 that is told 0.5, which is among the values a device may
have.
