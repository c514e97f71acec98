# Verification of tpm-fido

tpm-fido is a FIDO2/U2F security key in software: a Linux daemon that presents
itself as a USB HID token, keeps its keys in the TPM, and asks its user for
consent with pinentry dialogs. Its cryptography is delegated; what is its own is
bookkeeping by many goroutines: who may set the PIN, how many guesses are left,
which dialog answers which request, which request a CANCEL reaches, which
credentials and signature counts survive. These modules model that bookkeeping.

Every quotation and line number below refers to the repository at one commit;
`PROJECT.json` maps each definition to the lines it stands for.

## 1. The system

| component | state it keeps | operations | who calls it |
|---|---|---|---|
| PIN store (`pinstore/`) | PIN hash, retries left; a copy in memory and a JSON file | `Open`, `SetPIN`, `Verify`, `ResetRetries` and readers, under one mutex | the clientPIN handlers, the control socket |
| clientPIN handlers (`ctap2handlers.go:541-863`) | `server.pinToken` under a mutex of its own | setPIN, changePIN, getPINToken, getUvToken | one goroutine per HID request |
| control socket (`ctlapi.go`, `ctlsocket/`) | none | SetPIN, ChangePIN, ResetPINRetries, SetInternalUV, DeleteCred, readers | one goroutine per connection |
| internal-UV toggle (`uvconfig/`) | one flag in memory and a file | `SetInternalUV` | control socket; read by getUvToken |
| PIN verifier (`uvmethod/pinverifier/`) | none | a PIN dialog, then `Verify` | getUvToken |
| pinentry (`pinentry/`) | `activeRequest`, and per request its waiters, `cancel`, `done` | `ConfirmPresence`, `CollectPIN`; goroutines `prompt`, `promptPIN`, `watchCancel` | all handlers that need the user |
| HID transport (`fidohid/`) | channel ids, one reassembly buffer, `cancelFns` per channel | packet loop, `registerRequest`, `cancelRequest`, `clearRequest`, response writers | host packets; handlers write responses |
| resident store (`residentstore/`) | credentials per relying party, in memory and a JSON file | `Put`, `IncrementSignCount`, `Delete`, `Open`, readers | ceremonies, credential management, control socket |
| ceremonies (`ctap2handlers.go:63-355`, `tpmfido.go`) | the 15-second presence window | MakeCredential, GetAssertion; U2F register and authenticate | one goroutine per HID request |
| credential management (`ctap2handlers.go:357-539`) | one enumeration cursor | metadata, enumeration, delete | HID requests with a PIN token |
| TPM signer (`tpm/`) | `lastCounter` | `RegisterKey`, `SignASN1`, `Counter` | ceremonies |
| main loop (`tpmfido.go`) | the rate limiter, the 15-second presence window | dispatch of requests to handlers, U2F register and authenticate | the transport's events |
| tray window (`cmd/tpm-fido-tray/`) | the sites and credentials on the screen, and the selection | refresh, select, delete | the user; calls the control socket |
| rest | none that changes | CBOR, PIN-protocol and length-prefix codecs, memory signer for tests, attestation constants, single-instance lock | |

How they interact. The packet loop of the transport registers each complete
message, with a context of its own, in `cancelFns` and hands it to `server.run`,
which starts a goroutine for it. The goroutine reads the stores, asks pinentry
for a gesture or a PIN and waits for a channel, its context (CTAPHID_CANCEL) or
a timer, changes a store, and writes its response. Control-socket requests
change the same stores from their own goroutines. Every store has a mutex that
makes one call atomic; nothing spans two calls.

What is hard in this code:

* **interleavings** between the calls of one handler, each atomic on its own
  (IsSet then SetPIN; Verify then SetPIN then setPinToken; lookup, dialog, Put);
* **callbacks after unlock**: `watchCancel` decides under `req.mu` and kills
  after it; `prompt` stores `req.cancel` after the request is visible;
* **failed writes and crashes**: both stores change memory, then the file;
* **cancellation by name**: the transport clears a channel's slot, not a request's;
* **timers against answers**: 750 ms U2F polls, dialog timers, caller timers;
* **one buffer and one cursor for everybody**: packets of all channels are
  reassembled in one place, enumerations of all sessions share one cursor;
* **nested event loops**: the tray's handlers run while another one waits for
  the answer of its dialog;
* **two counters** for one credential, one of them tied to the wall clock.

What makes each component correct:

* *PIN store*: a wrong guess is paid for, in memory and on disk, before it is
  answered; a lockout lasts.
* *PIN administration*: it uses the store only through the store's operations;
  the PIN and the token change only by the hand of someone who found no PIN or
  proved it; a token revoked by a PIN change never comes back.
* *Dialogs*: one at a time; an OK is the user's, for what was on the screen;
  a PIN goes to the one who asked; one caller's cancellation does not hurt
  another; what the callers see is what an interface without goroutines,
  locks and timers promises.
* *Service*: only a CANCEL of the host kills a dialog; a canceled request ends;
  nothing a request started stays behind.
* *Transport*: a message sent in a row arrives as it was sent, whatever went
  astray before; no packet ends up in two requests; responses are read as
  they were written.
* *Registry*: CANCEL reaches the newest open request of its channel and no
  other; responses are not torn.
* *Ceremonies*: one credential per account, an acknowledged registration is
  kept, sign counts grow and are saved before they are used.
* *Credential management*: an enumeration nobody disturbs is complete; what
  vanishes was deleted by name, or replaced by its own account.
* *Tray*: what is deleted is what the user confirmed.

The full list of what is hard to test, each at its line, is `hazards` in
`PROJECT.json`.

## 2. Modules

```
PinStore <- PinAuth                      UserConsent <..refined by.. Pinentry <- Service
ResidentStore <- Ceremony <- MCCeremony  RequestRegistry <- HidTransport <- MCHidTransport
ResidentStore <- CredMgmt <- Tray        RequestRegistry <..instance of.. Service
```

Proofs are in `...Proofs` modules, one for each module or for a module and the
one it extends. MC modules only define symmetry sets.

**PinStore.** `mem` is `Store.s`, `disk` the JSON file. One operation is one
action (the mutex), with `PersistLocked(s, saved)` the two outcomes of the
write; a failed write leaves the new value in memory and the old one in the
file, as the code does. `Restart` copies the file into memory. A crash between
the rename and the answer is the operation followed by `Restart`. `misses`
is history: guesses answered "mismatch" since the last match, PIN change or
reset. `StoreSpec` is at once the specification of this component and the
abstract specification the server is shown to implement.

**PinAuth.** One `call` record per goroutine, its `at` the next thing the handler
does. A handler is cut where other goroutines can get in between: admission
(`IsSet`, the toggle), the dialog, `Verify`, `SetPIN`, `setPinToken`. Requests
refused before they change anything are not steps. A hash is a model value (the
platform proves a PIN by its hash); tokens are numbers in minting order, 0 is
`nil`. `uv` is the toggle in memory and on disk. `seen` (hashes the store held
during a request) and `dead` (tokens a completed changePIN had to revoke) are
history.

**UserConsent.** The abstract specification of the dialogs: one question at a
time, named by the caller who raised it; callers who ask the same may share it,
except for a PIN; it gets one verdict, and no caller is told more than that
verdict, or a denial, once. No goroutines, locks, timers or processes.

**Pinentry.** `active` is `activeRequest`; a dialog is named by the call that
opened it and goes through the stages of `prompt`: *new* (created, `cancel` nil),
*armed* (`cancel` set), *open* (on the screen), *settled* (result sent), *closed*
(`done` closed), *released* (`activeRequest` nil). `watcher` is the call's
`watchCancel` goroutine, cut at its unlock: `WatchRemove` decides under the
lock, `WatchResolve` resolves the caller's channel and kills. A caller leaves
by result, context or timer. The Confirm goroutine inside `prompt` is part of
`Answer`. `KeepsPromise` is the refinement of `UserConsent`: the question is
the active dialog, the verdict its answer, a caller's status what it has read
from its channel.

**RequestRegistry.** `cancelFns` is the map of cancel functions, a request number
in place of a closure; `ctx` the context of each request, `at` its handler. The
packet loop's three calls and the handler's two writes are the actions.
`clearRequest` writes through the channel, as in the code. `newest` is history.
The constant `Patient` says whether hosts send a request only after the last one
on that channel ended, as CTAPHID asks of them.

**HidTransport.** The packet loop and the response writers around the registry.
`pending` is the loop's one buffer (`innerMsg`, `needSize`, `reqChanID`, `cmd`).
Packets are taken in the order they are written, so a host's write and the
loop's turn are one step, `Send`, `Continue` or `SendSingle`; `TakePacket` is
the body of the loop, which looks at neither channel nor sequence number of a
continuation. Bytes are the pieces *(message, packet)*, so a property can say
which packets a request was made of (`got`). `WriteFrame` is one turn of
`writeRespose`, with its counter of one byte and its length field of two, and
the host puts the frames together in `inbox`. `msgs[m].torn` is history: a
packet of another channel came between those of message m. INIT and
unsupported commands are `AnswerAtOnce`. `ImplementsRegistry` states that the
packet loop implements `RegSpec`.

**Service.** Everything between a registered request and its answer: `phase` is
what the handler of each request does next. A CTAP2 request sleeps in the rate
limiter (*queued*), is covered by a recent tap or raises a dialog (*ready*),
*waits* in its select statement for the result, its context or its timer, and
replies. A U2F request skips the limiter, and its host polls with new
requests; getUvToken asks for the PIN. The module extends `Pinentry`, with the
number of a request as the name of its caller, and takes an instance of
`RequestRegistry` for contexts and slots: `Arrive`, `CancelFromHost` and
`Reply` are the registry's operations, `AskUser`, `TakeResult`, `StopWaiting`
and the goroutines of a dialog those of `Pinentry`. `watchCancel` sees a
context end exactly when the registry has ended it. `tapped` is the presence
window, `cancels` history.

**ResidentStore** and **Ceremony.** Lists of credentials per relying party in
memory and file, with the same write discipline as the PIN store. A ceremony is
a record: `ask` (the dialog is open) or `act` (the user consented). A GetAssertion
carries `flow`: *resident* when the credential was found without an allowList,
and has its own counter, *device* when an allowList named it, which takes
`TPM.Counter`. `home` records which relying party each created handle belongs
to (what the signer recognizes); `fresh` is the presence window; `drawn`,
`acked`, `excused`, `signs` are history. Credentials are numbered in creation
order.

**CredMgmt.** Both enumerations over the one `cursor`, with registrations and
deletions in between. A step is one critical section of the cursor's or the
store's mutex: `EnumerateCredsBegin` reads the store (`fetched`), `SetCursor`
takes the cursor. `seen` is history: per session what Begin found, what pages
it was given since, and whether it still had the cursor to itself.

**Tray.** The tray's credential window over `CredMgmt`: `tray.window` has the rows
on the screen, the selected site and credential and the state of the delete
button; `tray.dialog` is the modal dialog whose nested event loop lets other
handlers run. Calls over the control socket may fail before or after they were
carried out.

## 3. What is checked

Passing runs (TLC, two workers, each within three minutes):

| run | instance | properties |
|---|---|---|
| PinAuth | 2 hashes, 2 clients, MaxRetries 2, 2 tokens; 772 160 states | `BudgetInv`, `LockoutLasts`, `RevokedForGood`, `OnlyEntitled`, refinement `StoreSpec`, `AuthTypeOK` |
| Pinentry | 3 calls, 1 parameter pair and PIN dialogs | `OneDialog`, `Consent`, `PINIsNotShared`, `NobodyForgotten`, `ToldOnce`, refinement `KeepsPromise`, `PeTypeOK` |
| Service | 2 requests on 2 channels, 1 parameter pair and PIN dialogs, fair; 388 000 states | `OnlyCancelKills`, `CancelReaches`, `CanceledEnds`, `NothingStaysBehind`, `ServiceTypeOK` |
| HidTransport | 3 requests of up to 2 packets on 2 channels, patient hosts, responses of 5, 6 and 8 bytes in frames of 2 and 3; 2.4 million states | `UntornIsIntact`, `NoPacketTwice`, `ReadsAreWhole`, `SlotIsNewest`, `Cancelable`, `WholeResponses`, refinement `ImplementsRegistry`, `RegTypeOK`, `HidTypeOK` |
| Ceremony | 1 relying party, 2 users, 2 handles, 2 clients, 2 assertions, clock 10..11; 1.7 million states | `OnePerUser`, `AckedKept`, `DrawnIsSaved`, `CountersGrow`, `CeremonyTypeOK` |
| Tray | 2 relying parties, 2 users, 2 handles, 2 sessions and the tray | `AloneIsComplete`, `ButtonHasARow`, `OnlyConfirmedVanish`, `TrayTypeOK` |

* `BudgetInv`: answered mismatches and the retries left, in memory and in the
  file alike, never exceed `MaxRetries` together, through failed writes and
  restarts. `LockoutLasts` is its consequence a user sees.
* `StoreSpec` as a property of `PinAuth`: whatever interleaving the handlers take,
  the store sees only its own operations and restarts.
* `RevokedForGood`: after a changePIN is answered no older token is current, even
  if other handlers mint, change the PIN or revoke between its SetPIN and its
  setPinToken.
* `OnlyEntitled`: the stored PIN is replaced, and the token minted, only by a
  client that found no PIN or proved one the store held while its request ran.
  This is as much as the code guarantees: it does not compare again after
  Verify, so the PIN proved may no longer be the current one.
* `Consent`: an OK in a caller's channel means that the user confirmed the
  dialog it joined and that the dialog showed the caller's parameters. Two
  senders compete for that channel. `PINIsNotShared`: nobody joins a dialog that
  collects a PIN. `NobodyForgotten`: a live caller of an unanswered dialog is
  among its waiters. `ToldOnce`: what a caller was told stays so until it
  leaves, though the dialog and its own `watchCancel` both send. `KeepsPromise`:
  all of it together is what `UserConsent` says.
* `OnlyCancelKills`: though each U2F poll ends after 750 ms and the next takes
  over its slot, no context ends and no dialog is killed unless a host sent
  CANCEL for one of its requests. A request that ended without an answer (an
  error in `registerSite`) is canceled by its successor, harmlessly.
* `CancelReaches`: a request whose handler is running is the one that CANCEL on
  its channel ends, be the handler asleep in the limiter, waiting for the user
  or about to answer, and also after a predecessor that never answered.
* `CanceledEnds`: a canceled request ends though the user does nothing and no
  timer fires, wherever it was when CANCEL came. `NothingStaysBehind`: if timers
  fire, every request ends, its dialog gives way and its `watchCancel` returns.
* `SlotIsNewest`: what CANCEL would end is the newest request of the channel,
  not yet being answered. `Cancelable`: the newest running request is in reach of
  CANCEL. `WholeResponses`: no response is written while another one is being
  written on the same channel.
* `UntornIsIntact`: a request whose packets were written in a row reaches its
  handler as it was sent, whatever was left in the buffer before, or strayed
  into it. Messages that other hosts tear may be lost or mixed, as the loop
  does not look at the channel of a continuation; they do no lasting harm.
  `NoPacketTwice` bounds the mixing: no packet is in two requests, and a request
  begins with the initial packet of the channel it is answered on.
* `ReadsAreWhole`: a response written to its end is read as it was written if
  it is no longer than `InitLen + InitBit * ContLen` (57 + 128 * 59 = 7609 bytes
  in the code); a longer one is lost, and mistaken for another response only if
  its length does not fit the two bytes of the length field.
* `AckedKept`: a registration answered with success is in memory and in the file
  until it is deleted or its own account registers again.
* `CountersGrow`, `DrawnIsSaved`: every assertion gets a larger count than the last
  one from the same counter, and memory and file cover every count handed out.
  Both are about counts as they are drawn: two concurrent assertions may be
  answered in the other order, which nothing in the code prevents.
* `AloneIsComplete`: a session that moves the cursor alone is given every entry
  that Begin found, in order and once, and is told the end after the last,
  through registrations and deletions; listing credentials does not disturb its
  own listing of relying parties.
* `ButtonHasARow`, `OnlyConfirmedVanish`: the delete button stands for a row on
  the screen, and what vanishes was deleted by a host by its id, replaced by its
  own account, or is what the dialog named that the user confirmed, although a
  refresh may run between the dialog and the deletion.

Violation runs: what the repository says and the code does not do. Each is
listed with its quotation under `findings`.

| run | property | what happens |
|---|---|---|
| PinAuthSetup | `SetupNeedsNoPin` | two concurrent setPIN both find no PIN; the second overwrites the first |
| PeCancelSparesSiblings | `CancelSparesSiblings` | a caller joins between `watchCancel`'s unlock and its kill |
| PeCanceledDialogIsKilled | `CanceledDialogIsKilled` | CANCEL comes before `prompt` stored `req.cancel`; the dialog stays |
| RegistryImpatient | `Cancelable` | the late response of a replaced request clears the new request's slot |
| CeremonyCounts | `SignCountGrows` | an allowList assertion draws from the device counter, the next discoverable one gets a small count |
| CredMgmtMix | `EnumerationsDoNotMix` | two sessions enumerate at once; one is given a credential of the other's relying party |

Bounds. Two clients are the least that interleave, and a third hash or
credential would only repeat roles: with two hashes there is a right and a
wrong one, and each can become the other. `MaxRetries` 2 reaches the lockout and
the state before it. Two tokens give a revoked and a current one. Three calls
give an opener, a joiner and one that is refused or follows. In Service two
requests are an opener and a joiner or a successor, on one channel or on two;
the first is on `FirstChannel`, as channels are interchangeable. Three messages of
two packets on two channels give a message, one that tears it, and one after
them; the lengths 5, 6 and 8 are the longest response that sequence numbers can
carry (`InitBit` is 1), one that is too long, and one that does not fit the
length field (`SizeMod` is 7). Two handles are enough for a credential and its
replacement, two assertions for a count and its successor; the violation of
`EnumerationsDoNotMix` needs three. One relying party suffices for the ceremonies,
as none of their operations relates two; enumerations have two. `MaxSigns < Epoch`
says that the wall clock is far ahead of any credential's own count, as it is in
the code (seconds since 2021). All bounds are guards of named constants
(`MaxTokens`, `MaxCalls`, `MaxRequests`, `MaxPackets`, `MaxIds`, `MaxSigns`,
`MaxClock`); the theorems below hold for every value of theirs. Clients, users,
channels, relying parties and sessions are symmetric in the Ceremony,
HidTransport, Tray and CredMgmt runs, which check no liveness.

Deadlock is not checked where all calls, messages or registrations of the
instance are made and everything has ended; in `PinAuth` it is checked.

Fairness (`ServiceFairSpec`): for each request weak fairness of its handler, of
its dialog's goroutine, and of its `watchCancel`. The Go scheduler runs every
goroutine that can run, the rate limiter's sleep ends, and a killed pinentry
process exits. The timers of handlers and dialogs are not assumed to fire, except
in the antecedent `TimersFire` of `NothingStaysBehind`; `CanceledEnds` does without.
Hosts and user are never assumed to send, to cancel or to
answer.

## 4. What is proved

TLAPS checks these for every value of the constants that satisfies the `ASSUME`
of the module.

| module | theorem | statement |
|---|---|---|
| PinAuthProofs | `StoreTypeCorrect`, `RetryBudget`, `LockoutIsDurable` | `StoreSpec => []...` |
| PinAuthProofs | `AuthTypeCorrect`, `RevocationIsForGood`, `OnlyEntitledChange` | of `AuthSpec` |
| PinAuthProofs | `LoneSetupNeedsNoPin` | `AuthSpec /\ []OneSetup => SetupNeedsNoPin` |
| PinAuthProofs | `AuthImplementsStore` | `AuthSpec => StoreSpec` |
| PinAuthProofs | `AuthRetryBudget`, `AuthLockoutIsDurable` | by the refinement |
| PinentryProofs | `PeTypeCorrect`, `DialogsExclude`, `ConsentIsGenuine`, `PINDialogsAreNotShared`, `LiveCallersStayKnown` | `PeSpec => []...` |
| PinentryProofs | `PinentryImplementsUserConsent` | `PeSpec => KeepsPromise` |
| PinentryProofs | `CallersAreToldOnce` | `PeSpec => ToldOnce`, by the refinement |
| PinentryProofs | `ArmedDialogsAreKilled` | `PeSpec /\ CancelIsSet => []CanceledDialogIsKilled` |
| PinentryProofs | `KillsSpareSiblings` | `PeSpec /\ NobodyJoinsTheDoomed => CancelSparesSiblings` |
| ServiceProofs | `ServiceTypes`, `OnlyCancelKillsDialogs`, `CancelReachesTheRunning`, `ServiceKeepsConsent`, `ServiceKeepsDialogs` | `ServiceSpec => []...` |
| ServiceProofs | `ServiceImplementsUserConsent`, `ServiceTellsOnce` | `ServiceSpec => KeepsPromise`, `ToldOnce` |
| RequestRegistryProofs | `RegTypeCorrect`, `CancelHitsTheNewest` | `RegSpec => []...`, with any hosts |
| RequestRegistryProofs | `PatientRequestsAreCancelable`, `PatientResponsesAreWhole` | the same, with `Patient` |
| HidTransportProofs | `HidImplementsRegistry` | `HidSpec => RegSpec` |
| HidTransportProofs | `HidCancelHitsTheNewest`, `HidServesPatientHosts` | by the refinement |
| HidTransportProofs | `HidTypesCorrect`, `PacketsGoToOneRequest`, `UntornRequestsArrive`, `ResponsesAreRead` | `HidSpec => []...` |
| CeremonyProofs | `CeremonyTypes`, `AccountsAreUnique`, `RegistrationsAreKept`, `CountsAreSaved` | `CeremonySpec => []...` |
| CeremonyProofs | `CountsGrow` | `CeremonySpec => CountersGrow` |
| CeremonyProofs | `CountsGrowOneWay` | `CeremonySpec /\ NoWayBack => SignCountGrows` |
| TrayProofs | `TrayTypes`, `ListingsAreComplete`, `ButtonsHaveRows` | `TraySpec => []...` |
| TrayProofs | `OnlyConfirmedOnesVanish` | `TraySpec => OnlyConfirmedVanish` |
| TrayProofs | `LoneEnumerationsDoNotMix` | `MgmtSpec => EnumerationsDoNotMix`, with one session |

The arguments:

* *PIN store.* `StoreInv` (types and budget) is inductive. The counter moves in
  memory and file together, except when a write fails, and then the file keeps
  the larger value while the miss is not answered.
* *PinAuth.* Each step of a handler is a step of the store or leaves it alone;
  this needs `CallsInv`, that a request which verifies or stores carries real
  hashes. `RevokedForGood` is inductive with the bounds on `dead` and `minted`
  (`TokensInv`): a minted token is larger than every dead one, and every
  revocation leaves no token at all. `OnlyEntitled` needs `EntitledInv`: a request
  past its check proved a hash it has seen in the store, or has seen it empty.
* *Pinentry.* Consent is not inductive. `PeInv` adds `Shown` (a dialog shows what
  its first caller asked), `Known` (a dialog's waiters joined it), `Attached` (a waiting caller's dialog shows its parameters),
  `Undecided` (an unanswered dialog has no answer a later one could contradict),
  `Unread` (only a waiting caller has a result) and `Fresh`. One lemma for each
  action. The same invariant gives the refinement, step by step. `ToldOnce` is
  then a matter of `UserConsent` alone: none of its actions changes a status but
  that of a caller who waits, or who leaves.
* *Service.* Every step is a step of Pinentry's or leaves its state alone, so
  `PeInv`, `Consent` and `KeepsPromise` carry over. `OnlyCancelKills` needs
  `ServiceInv`: a slot that a new request takes over is empty or belongs to a
  request that ended without an answer; such a request was granted by the
  user (`Granted`), its dialog is settled, and what its `watchCancel` does is
  no kill (`Killers`, `Killed`). `CancelReaches` needs `ReachInv`: a running
  request is the newest of its channel, because a host sends the next one when
  the last is over or silent; so no other request takes or clears its slot.
* *Registry.* `SlotInv` needs no patience. `OneOpen` (only the newest request of a
  channel is handled) is what patience gives; `Cancelable` and `WholeResponses`
  follow from it, and without it RegistryImpatient shows the first to fail.
* *Transport.* `PendingInv`: what is in the buffer is nothing, or the beginning of
  a request of a host that still waits for nothing else; so a stray continuation
  that completes it registers a request the registry allows. `PacketInv`: the
  packets in buffer and requests were sent, and none is in two places; a
  message's next packet is new to all of them. `IntactInv`: a message that nobody
  tore is all there is in the buffer, or one request has all of it; a packet of
  another channel makes it torn, which is why the stray does not matter.
  `ReadsAreWhole` needs `FrameInv`: while a response is written, its host has read
  exactly what was written, frame by frame (`InSync`), or has dropped it, and then
  it is longer than sequence numbers can count (`Dropped`). No other frame comes
  between, as a patient host has one request open (`OneOpen`), and an answer of the
  packet loop itself goes to a host that waits for none (`BufferOK` says when a
  packet completes a message).
* *Ceremonies.* `CeremonyInv` asks the same of memory and file (`MapInv`): ids
  belong to the relying party of their handle, accounts are unique, counts cover
  what was drawn and stay below the number of assertions, and owed registrations
  are there. Since `MaxSigns < Epoch`, the device counter is above all of them.
* *Credential management and tray.* `SeenOK` relates what an undisturbed session
  was given to what the cursor has passed. `WindowInv`: the selected credential
  is in the list on the screen; while the user is asked, the window still names
  what the dialog asks about, or a refresh has left it without a site and then
  nothing is deleted.

Five of the six findings have a converse that is proved: the property holds as
soon as what breaks it is excluded, so every counterexample contains it. The
hypotheses are about behaviours (or, in the last, about the number of sessions),
and each is met by behaviours that do everything else.

* `SetupNeedsNoPin` holds with one setPIN in progress at a time (`OneSetup`), next to
  any changePIN, reset, token request and restart. `SetupInv`: the PIN that was
  absent at the check is absent at the store, since only setPIN creates one.
* `CanceledDialogIsKilled` holds when no `watchCancel` looks for `req.cancel` before
  it is set (`CancelIsSet`). `DesertedInv`: a dialog all have left is killed, or its
  killer is on its way.
* `CancelSparesSiblings` holds when nobody joins a dialog that is about to be killed
  (`NobodyJoinsTheDoomed`). `DoomedInv`: a doomed dialog has no waiters left.
* `SignCountGrows` holds when no count of a credential's own follows one of the
  device's (`NoWayBack`); the change the other way is harmless because the clock
  is ahead of any number of assertions (`OwnCountsAreLow`).
* `EnumerationsDoNotMix` holds with one session, by `LoneInv`: the credentials in
  the cursor are what this session's Begin found.

The converse of the sixth, `Cancelable` without patience, is the theorem
`PatientRequestsAreCancelable`.

Only model-checked: the liveness properties `CanceledEnds` and
`NothingStaysBehind` (fairness and ENABLED are outside the prover's reach), and
that the violations of section 3 occur, which takes a behaviour to show.

## 5. What is not modelled

* CBOR, PIN-protocol cryptography, U2F decoding, the length-prefixed codec of key
  handles, attestation: stateless. The models assume that a client proves a hash
  only by having it and that a handle is recognized for its own relying party.
* The allocation of channel ids by INIT: there are 2^32, and the interesting
  case, that they run out, ends the daemon. Channels are given.
* A host that sends INIT or unsupported commands while a request is open can
  tear a response; hosts that wait for one answer before they send anything but
  CANCEL do not, and HidTransport assumes it of them.
* Time: a timer may fire whenever it is armed, which includes every schedule the
  durations allow and some they do not. The wall clock only moves forward.
* Power loss that undoes a rename the process has seen succeed (there is no
  fsync).
* A pinentry process may still be shutting down when the next dialog opens;
  `OneDialog` is about requests, not processes.
* ConfirmPresence with all-zero parameters would match a CollectPIN dialog; a
  digest is never all zeros, so `PINParams` is assumed not to be in `Params`.
* The memory signer, which is for tests; process start (launching the tray, the
  single instance, the ready socket); the tray's PIN and Hello rows, which
  forward single calls that PinAuth has as those of a client.

Hazards that no property covers have a note in `PROJECT.json` that says why.

## 6. What is left

1. Service with three requests, which needs an abstraction of the dialog's
   stages to stay in reach of the liveness check; with it `CanceledEnds` for a
   successor of a coalesced pair.
2. Start-up: the ready channel of the control socket and the tray's launch.
