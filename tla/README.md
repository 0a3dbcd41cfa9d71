# Freeteuse in TLA+

Freeteuse is an Android remote control for Freebox set-top boxes. It finds boxes on the local
network, keeps a list of them, opens one HID session at a time with the active box through a native
library (libfoils over librudp, driven by a libela event loop), and sends it key presses. The modules
here model the native session with its three threads, the activity that opens and closes sessions, the
input it turns into key presses, the two sniffers that find boxes, and the dialogs over the activity. Line numbers are those of the sources named; `J/` stands for
`src/app/src/main/java/bzh/leroux/yannick/freeteuse/` and `C/` for `src/app/src/main/cpp/`.

## 1. The system

| Component | State | Operations | Talks to |
|---|---|---|---|
| `Rcu` (`C/Rcu.cpp`, `Key.cpp`, `Message.cpp`, `Status.cpp`) | two pipes, event loop, two event sources, HID client, pending release, the static `_current_rcu` | `Connect`, `Disconnect`, `SendKeyPress`, `SendKeyRelease`, `ReadStatus`; callbacks `OnKeyAvailable`, `OnKeyRelease`, `OnStatus` | called through JNI; callbacks from libela and libfoils |
| `Pipe` (`C/Pipe.cpp`) | a kernel pipe of pointers | blocking `Read`, `Write` | main thread to looper thread, looper (and main) thread to status thread |
| `Freebox` (`J/Freebox.java`) | native pointer, status thread, focus, reachability, color | `connect`, `disconnect`, `pressRcuKey`, `releaseRcuKey` | JNI; posts status texts to the main thread |
| `MainActivity` (`J/MainActivity.java`) | active box, `mConnected` | `onResume`, `onPause`, detections, selections, statuses, key and touch input | everything |
| `Home` (`J/Home.java`) | list of boxes; the pool in the preferences | disclose, conceal, save, recover, detect, next and previous reachable box | `Painter`, the sniffers, `MainActivity` |
| `Painter` (`J/Painter.java`) | count per color | `getColor`, `useColor` | `Home` |
| Sniffers (`J/sniffers/`) | NSD discoveries and a resolver queue; a JmDNS thread and a multicast lock; a debug receiver | start, stop, detect | post detections to the main thread |
| `MultiClicker` (`J/MultiClicker.java`) | iterator over a macro | start, step, stop | posts itself; `MainActivity` |
| `Wifi` (`J/Wifi.java`) | alert, broadcast receiver | pause, resume, stop | `MainActivity` |
| `CheatCode`, `Logger` | keys seen so far | `onClick` | `MainActivity` |

**What is hard.** Three threads run a session. The main thread writes keys to the looper pipe and, in
`Rcu::Disconnect`, tears down what the other two use. The looper thread runs `ela_run`: keys, the
release timer and the HID client's status callback. The Java status thread blocks in `Rcu::ReadStatus`
and posts texts to the main thread, which cannot run them while it waits in two joins. A pipe that is
full blocks its writer. Status texts outlive their session in the Handler queue. The release of a timed
press may be sent by the timer, the next key or `CLOSE_PIPE`. `foils_hid_deinit` may call `OnStatus` once
more, on the main thread, after the status pipe has been closed with a message. Above that, detections come
from threads that `stop` does not wait for, `onPause` saves, clears and disconnects in an order that
decides what the next `onResume` selects, and the process may die at any point.

**What makes each part correct.** Session: no object used outside its lifetime; each accepted key reaches
the box once, in order, and no timed press stays down; disconnect returns; the indicator ends up off. Activity: the session
in progress is that of the active box; boxes are not duplicated; the box that was active is selected
again; buttons are not painted for a null box. Sniffers: what is acquired is released, each service
found is resolved. MultiClicker: nothing runs after stop. Dialogs: none outlives `onPause`, and the
alert is about the network the device is on. The hazards, each at its line, and the
properties that cover them are in `PROJECT.json`.

## 2. Modules

    FreeboxSession            what MainActivity may rely on (abstract)
       ^ implemented by              ^ used by
    RcuSession                     Activity
       MCRcuSession (TLC)             MCActivity (TLC)
       RcuSessionProofs               ActivityProofs (TLAPS)
         -> RcuSessionRefines (TLAPS)

    KeyInput                  what the user's input and macros send to the active box
    KeyEncoding               the code a typed character is sent as
    ReportDescriptor          how the HID reports are described to the box
    DnsServiceSniffer         the JmDNS threads and their multicast lock
    BonjourSniffer            the NSD discoveries and resolver queues
    Dialogs                   the Wifi alert, the log and its cheat code

Each of the last six but `ReportDescriptor`, which is checked as it stands, has a module `MC...` that TLC
runs and a module `...Proofs` for TLAPS.

**`FreeboxSession`** has a session's phase (closed, open, closing, ended), the posted texts and
`mConnected`. Texts are posted while a session is open or closing, `EXIT` is the last, and only after it
does disconnect return. There are no threads or pipes in it.

**`RcuSession`** models `Freebox.connect`/`disconnect` and all of `Rcu` and `Pipe`. The three threads are
the step counters `ui`, `looper` and `reader`; each call is split at the points where it blocks or where
another thread may see a difference:

| Actions | Code |
|---|---|
| `Connect`, `StartReader` | `Freebox.connect`, `Rcu::Connect` (J/Freebox.java:185, C/Rcu.cpp:310) |
| `SendKey`, `WriteKey` | `SendKeyPress`, `SendKeyRelease`, `Pipe::Write` |
| `BeginDisconnect`, `WriteClose`, `JoinLooper`, `CloseStatus`, `Deinit`, `NotifyInDeinit`, `Free`, `JoinReader` | `Rcu::Disconnect` (C/Rcu.cpp:399) and `Freebox.disconnect`, in source order |
| `OnKeyAvailable`, `OnKeyRelease`, `OnStatus`, `WriteStatus`, `LooperReturn` | the event loop and its callbacks |
| `ReadStatus`, `PostStatus` | the status thread |
| `Deliver` | the posted runnable, `MainActivity.onFreeboxStatus` |

`live` is the set of objects that exist, and `UiNeeds`, `LooperNeeds` and `ReaderNeeds` say what each
thread dereferences at its step. A thread whose needs are not met can only take `Fault`, which stops the
process. That makes a use after free a reachable state rather than something the model cannot express.
`Connect` keeps the failing branch of C/Rcu.cpp:318, where the Rcu is left as its constructor made it.
`accepted` and `sent` are histories for the properties only.

**`Activity`** models the main thread's handlers in `MainActivity` and `Home`, with `Painter` and
`FreeboxSniffer`, over a session in the terms of `FreeboxSession`. All `Handler`s share the main looper,
so `queue` is one FIFO of status texts and detections. `connectFreebox` and `disconnectFreebox` are split
around `Freebox.disconnect`, during which the status thread and the sniffers' threads still post
(`Switch`, `Return`, `Connect`, `Disconnected`). `Restart` is the death of the process; only `saved`, the
preferences, survives. `late` counts detections that a sniffer's thread posts after `stop` has dropped
what was posted. The definitions introduced by "Mutant:" are the plausible bugs each
property is tested against; the specifications do not use them.

**`KeyInput`** models how input reaches the active box's session: clicks, touches and key events in
`MainActivity`, and the macros ("multi-clicks") that `MultiClicker` plays one callback at a time.

| Actions | Code |
|---|---|
| `Click` | `onClick` of an "onClick" button, a character in `dispatchKeyEvent` (J/MainActivity.java:122, 225) |
| `Press`, `Release`, `Cancel` | the three motion events of `onTouch`; down and up of the volume and delete keys |
| `StartMacro`, `RunMacro` | `MultiClicker.start` and `run`, with `onMultiClickStep`; `Continue` is the post at the end of `run` |
| `Pause`, `Resume`, `Select`, `Detect`, `Report` | what the rest of the activity does to the box, the session and the macro |

`down` is the key that each HID report of the box is left at. A report holds one code and a release sends
code 0 on the report of its key (C/Key.cpp:61), so a key on the same report replaces the one before, and a
press with automatic release leaves the report at 0. What `mMultiClicker.stopped () && mActiveFreebox != null`
ignores is ignored here too: the user may press and let go of anything at any time, and `forgotten` records
the keys let go of unseen. Any box may be selected or detected, as which one it is belongs to `Activity`.
Detections that arrive while the activity is paused are left to `Activity` too.

**`KeyEncoding`** is the loop of `dispatchKeyEvent` (J/MainActivity.java:238) that adds the bytes of a text,
each shifted by eight times its index, into an `int`. One `Pack` is one turn of it. An `int` is a pair of
16-bit halves, because TLC's own integers are 32 bits wide and would overflow where Java wraps; `Plus` drops
the carry out of the upper half, and `Half(at) % 2` is the shift distance modulo 32.

**`ReportDescriptor`** is the array `rcu_report_descriptor` (C/Rcu.cpp:40), one line of the source to an item, and
a reader that walks it by the sizes that the prefixes announce.

**`DnsServiceSniffer`** has a thread per `onResume`, as nothing waits for the thread of an older sniffer:

| Actions | Code |
|---|---|
| `Start`, `Stop` | `start`, `stop` from `Home`; the interrupt flag stays set until the thread sleeps |
| `Acquire`, `Create`, `Created`, `CreateFails` | `run` and `getSnifferList`: multicast lock, one JmDNS instance per address |
| `Wake`, `Close`, `CloseFails`, `Release` | the interrupted sleep, the closing loop, the release of the lock |
| `ServiceResolved`, `Deliver` | a service resolved on a thread of JmDNS; the runnable on the main thread |

Each sniffer has a `MulticastLock` of its own, but creates it with the tag `getPackageName ()`, which is the same for all
(J/sniffers/DnsServiceSniffer.java:57). What the `WifiManager` drops at `release` is not in the sources: to our knowledge, older releases of Android
drop every lock of the application with the tag, later ones the lock itself. `byTag` is either, free at `Init`, and
`DroppedWith` says what goes. `older` is a history, the threads that were under way when a sniffer acquired its lock.

**`BonjourSniffer`** has a resolver queue per sniffer over the one `NsdManager`:

| Actions | Code |
|---|---|
| `Start`, `Stop` | `start` of each type; `stop`, whose loop ends at the first `stopServiceDiscovery` that throws (J/sniffers/BonjourSniffer.java:140) |
| `ServiceFound` | `onServiceFound`, `ResolverQueue.add`, `resolveNext` |
| `Answer` | `onServiceResolved` or `onResolveFailed`, then `resolutionReceived` |
| `DiscoveryAnswered`, `DiscoveryStopped`, `Take`, `Resolve` | external: the NSD service, which resolves one service at a time and refuses others |

A sniffer's queue is left as it is by `stop`, so that an older sniffer may still be resolving when the next starts.

**`Dialogs`** has the alert (null, shown, hidden or dismissed: `AlertDialog.show` brings a dismissed one back), the network that the
alert's text was made for (`about`), the log, and
the iterator of the cheat code as the number of keys it has returned. `Receive` is `Wifi.onReceive`, `Status`
the `pause` and `resume` that `onFreeboxStatus` calls, `Click` `Logger.onClick` with `CheatCode.discovered`.

**Composition.** `KeyInput` applies keys to `down` at once. `RcuSessionRefines` proves that it may: over the session of one box
(`Input`, an instance of `KeyInput` whose `down` is what the HID reports of the keys accepted add up to), `WriteKey` does to `down`
just what `AfterPress`, `AfterRelease` or `AfterClick` says, the start and the end of a session leave it up, and no other step of the three threads changes it
(`KeysAlwaysHaveEffect`); and the box itself is left at `down` whenever the pipe has been read and no release is pending (`BoxAlwaysLeft`). `RcuSession` is shown to implement `FreeboxSession` (`ImplementsSession`), and `Activity`
to use its sessions as `FreeboxSession` allows (`UsesSession`), so what `Activity` assumes about its sessions
is what the native code does. `Activity` keeps them apart from the session's threads, which is what makes
three boxes and a process death checkable. A `Deliver` of `DnsServiceSniffer` and an `Answer` of `BonjourSniffer` are what becomes a
`Detect` of `Activity`: a sniffer's thread may post after `stop` has dropped what was posted (`posted`), and what comes
of that is shown in `Activity` (`late`).

## 3. Runs

| Run | Asks | Bounds |
|---|---|---|
| `session_keys` | does the box get each report once, in order, with no key lost, left down or sent through a dead object? | 3 keys of any of the three commands on 2 reports, pipes of 2, 1 status per session |
| `session_status` | does the indicator end up right, over sessions that follow one another? | 3 statuses of 3 kinds per session, pipes of 2, up to 3 texts of older sessions posted at connect |
| `session_address` | is the inductive invariant right, at an address `Rcu::Connect` rejects too? | both kinds of address, pipes of 1 |
| `session_live` | does disconnect return, is a timed press released, does the indicator go off, is `FreeboxSession` implemented? | pipes of 1, so that each write may block; 2 keys, 2 statuses |
| `activity_boxes` | which box is listed, active, focused, saved and colored? | 3 boxes, one without a port; 2 colors; 2 queued messages; 1 late detection; 1 process death |
| `key_input` | is a key left down, can anything come between the keys of a macro, does each macro have one callback and an end? | 3 boxes, one without a port; 3 keys, two of them on one report; 2 macros |
| `activity_live` | are sessions used as promised, does a known box become active? | 2 boxes, 2 status texts, 1 late detection |
| `dialogs` | is the alert about the network in use, out of the way and gone with the activity; when is the cheat code recognised? | 3 networks, one usable and a text for each of the others; the code of `Home`, which overlaps itself; 6 clicks |
| `dns_sniffer` | is the lock held and released, when does another sniffer take it away, is every JmDNS instance closed, does every thread end? | 2 sniffers, 2 addresses, both kinds of `WifiManager`, every call that may throw throws |
| `bonjour_sniffer` | is each service resolved once and in order, who is refused, what is left running, does it come to rest? | 2 sniffers, 2 types, 3 and 1 services found |
| `key_encoding` | is a character sent as its UTF-16 units? | units with each byte on both sides of 128, texts of 1 to 3 units |
| `report_descriptor` | does the descriptor say what its comments say? (violated, see below) | the whole descriptor |

**Why these are enough.** Three keys give a pending release, the key that flushes it and one more in
the pipe; two reports tell a press from the release of another key; one code is enough as no code is
compared. Pipes of one or two pointers make full pipes common; real ones hold
thousands, and `RcuSessionProofs` covers every capacity. Sessions repeat without bound in every run; `MaxBacklog` lets texts of
one or more previous sessions be pending at `Connect`. Two colors for three boxes exhaust the painter; a
third box is needed for a previous and a next one. One late detection and one death may
fall at any point, and each property that excludes late detections says so by its premise `late = 0`.
`CHECK_DEADLOCK FALSE` is used where the process may really end (a fault at a rejected address,
a null pointer after a late detection) or nothing is left to do: the sniffers that `MaxSniffers` allows are used up,
the descriptor has been read.

Two sniffers are enough for an older thread or queue to be at every point while a newer one works, which is
how sniffers touch one another: through the multicast lock of the device and the one resolution NSD allows. Three services
give one in progress, one queued and one more. Six clicks hold the code of four keys with a failed attempt before it that overlaps it.
The theorems cover every bound.

`KeyInput` needs no bound: `typed` is only extended while a macro is played. Its two macros have a key
before, between and after delays and a delay first; three boxes allow a macro to be moved from one box to
another or to one without a session.

Properties worth a comment:

* `NoFault` is conditional on a numeric address. For a box known by a name or a scoped address that
  `getaddrinfo`/`inet_pton` reject, `Rcu::Connect` creates no pipe, `Freebox.connect` still starts the
  status thread, and `Rcu::ReadStatus` (C/Rcu.cpp:237) reads through a pointer that was never set.
* `IndicatorSettles`, `IndicatorCurrent`, `IndicatorClears`: texts of a closed session are still
  delivered during the next, so `mConnected` may be true for a moment for the wrong session. These three
  say how far that goes: it follows the order of reading and clears once the queue is served.
* `QuietWhenPaused` and `NoNullPaint` hold without late detections only. With one, the activity opens a
  session while it is paused, or, with `mConnected` still true, paints the buttons of a null box
  (J/MainActivity.java:312). `SessionIsActive`, `SelectionRestored` and `NoDuplicates` hold with them too.
* `ColorsSharedLast` is also conditional: a box found late takes a color and is forgotten at the next
  `onResume`, so that another box shares one; after a process death both are recovered with the same
  color although one is free.
* `NoStuckKey` names the only two ways a key stays down on the box although no finger is on it: it was
  let go of while a macro locked input, or by `ACTION_CANCEL`, which `onTouch` does not handle (J/MainActivity.java:187).
  Every other loss of a release ends with the session.
* `MacroOnOneBox`: the locks on selection and `onPause` keep a macro on its box, but a detection while not connected
  moves it to another one (J/MainActivity.java:306); this exception is in the property.
* `CodeExact` says when a code that was entered is missed: `CheatCode.discovered` restarts its iterator at a wrong key and
  does not look at that key again, nor at those before it (J/CheatCode.java:50). So a code is missed if its first key came while an
  earlier attempt was under way, and only then: whether that key ended the attempt or a later one did. With the code t g t s, the clicks t g t g t s
  are an attempt that fails at the fourth, although the code begins at the third.
* `AlertCurrent`: `onReceive` makes a new alert each time, so that the one `Wifi.resume` brings back is always about the network in use.
  That it also brings back one the user has dismissed is what the code does (J/Wifi.java:144); the property speaks of its text.
* `AlertOutOfTheWay`: `Wifi.onReceive` does not look at the session, so that a broadcast may put the alert over a connected box; only that can.
* `RefusedByOther`: a sniffer never gets its own request refused, but one stopped while resolving makes NSD refuse the first
  request of the next sniffer, and `onResolveFailed` drops that service (J/sniffers/BonjourSniffer.java:49).
* `StopIsComplete` and `StopComesToRest` name the discovery that is left running behind one that could not be started.
* `MulticastWhileListening`: on a device that drops locks by tag, an `onPause` and `onResume` in quick succession let the thread of the sniffer
  that was stopped release the lock the next one has just acquired, which then listens without (J/sniffers/DnsServiceSniffer.java:97). The
  property says that this is the only way to lose it: by tag, and through a thread that was under way at the acquire and has released since.
* `NoLeak`: if an interface fails while instances are made, the list is lost and those made stay open
  (J/sniffers/DnsServiceSniffer.java:164); only a thread that met an exception leaks.

**A finding.** `report_descriptor` is expected to be violated. C/Rcu.cpp:80 writes `0x27, 0xFF, 0xFF, 0xFF` for "Logical Maximum
(2**24-1)". The two low bits of `0x27` announce four bytes of data (HID 1.11, 6.2.2.2), so the item swallows the `0x81` that begins
the Input item of line 81, and the reader is off from there: the `0x62` that follows is taken for a prefix, and neither the input nor
the end of the collection is read. The items of reports 1 and 2 come before it.

**Fairness.** A thread in the middle of a call goes on with it (weak, `UiContinues`, `ReaderNext`,
`WriteStatus`, `LooperReturn`, `MainNext`, `Exit`, `RunMacro`, `ThreadNext`, and the `Deliver` of a sniffer): threads are scheduled. The event loop serves a source that is ready again and
again, whatever other callbacks run in between, and the Handler queue is first in first out (strong,
`OnKeyAvailable`, `OnKeyRelease`, `Deliver`). Users, the network and the sniffers are never fair: nothing
makes a key be pressed, a box be found or a status be reported. The one fairness assumed of code that is not here is that NSD
reports a result for each request (weak, `ServiceNext` of `BonjourSniffer`): the resolver queue relies on it, and would wait for ever without. `LooperReturn` is a step of its own because
callbacks of the iteration in which `ela_exit` is called may still run.

## 4. Proofs

For every value of the constants, bounds included, `tlapm` checks the theorems below: every invariant and every
action property of the passing runs is one of them, and some more.

| Module | Theorem | Establishes |
|---|---|---|
| `RcuSessionProofs` | `TypeCorrect` | `TypeOK`; in particular neither pipe exceeds its capacity |
| | `SessionInvariant` | the inductive invariant `SessionInv` |
| | `NeverFaults`, `NothingEverLost` | `NoFault`; `NothingLost`: the looper pipe is empty when deleted |
| | `NeverLeftPressed`, `KeysAlwaysInOrder` | `NoKeyLeftPressed`, `KeysInOrder` |
| | `IndicatorAlwaysSettles`, `IndicatorAlwaysCurrent` | `IndicatorSettles`, `IndicatorCurrent` |
| | `MainThreadNeverStuck` | while `connect`, `pressRcuKey` or `disconnect` is running, one of the three threads can move |
| | `CallsComeToAnEnd` | `CallProgresses`: each step of any thread during such a call lowers `StepsLeft`, a natural number |
| | `ReleaseAlwaysComing` | a timed press not yet released has its timer armed in a loop that will look at it |
| | `ExitAlwaysNears` | `ExitNears`: a posted `EXIT` is only brought forward, and switches the indicator off when it is delivered |
| `RcuSessionRefines` | `SessionImplemented` | every step of `RcuSession` is a step of `FreeboxSession` or a stutter |
| | `KeysAlwaysHaveEffect`, `BoxAlwaysLeft` | what `KeyInput` says a key does is what the session does with it (section 2, Composition) |
| `ActivityProofs` | `TypeCorrect`, `NeverTwice` | `TypeOK`, `NoDuplicates` |
| | `SessionAlwaysActive`, `FocusAlwaysFollows`, `SelectionAlwaysRestored` | `SessionIsActive`, `FocusFollowsActive`, `SelectionRestored` |
| | `AlwaysQuiet`, `NeverNull` | `QuietWhenPaused`, `NoNullPaint` |
| | `ColorsAlwaysSharedLast`, `PreviousAlwaysUndoesNext` | `ColorsSharedLast`, `PreviousUndoesNext` |
| | `SessionsUsed` | every step of `Activity` is a step of `FreeboxSession`, a stutter, or the death of the process, which leaves no session |
| | `SwitchAlwaysGoesOn` | the main thread's way through `disconnectFreebox` and `connectFreebox` is never blocked, only gets shorter and ends with the box active; a known box with none active is already on it |
| `KeyInputProofs` | `TypeCorrect`, `AlwaysOneCallback` | `TypeOK`, `OneCallback` |
| | `MacroStaysOnBox`, `NeverInterrupted`, `NeverStuck` | `MacroOnOneBox`, `MacroUninterrupted`, `NoStuckKey` |
| | `MacroAlwaysGoesOn` | `MacroGoesOn`: each callback ends the macro or shortens it; else only `onPause` touches it |
| `DnsServiceSnifferProofs` | `TypeCorrect`, `AlwaysMulticast`, `NeverLeaks` | `TypeOK`, `MulticastWhileListening`, `NoLeak` |
| | `EndIsFinal` | a thread that has ended takes no step and its instances stay as they are |
| | `StopAlwaysHeard`, `EndAlwaysNearer` | the interrupt of `stop` is not missed at any point; each step of the thread lowers `Work` and no other step raises it |
| `BonjourSnifferProofs` | `TypeCorrect`, `AlwaysOneRequest` | `TypeOK`, `OneRequest`: a sniffer has one resolution under way at most |
| | `AlwaysInOrder`, `OnlyOthersRefuse`, `AlwaysComplete` | `InOrder`, `RefusedByOther`, `StopIsComplete` |
| | `RestIsFinal` | what a sniffer at rest has left is not touched again |
| | `QueueAlwaysRunsDown` | a queue that is not empty has its request under way; each step for it lowers `QueueLeft`, none of another sniffer raises it |
| `DialogsProofs` | `TypeCorrect`, `AlertAlwaysCurrent`, `AlertStaysOut` | `TypeOK`, `AlertCurrent`, `AlertOutOfTheWay` |
| | `NeverWhenPaused`, `CodeAlwaysExact` | `NoDialogWhenPaused`, `CodeExact` |
| `KeyEncodingProofs` | `AlwaysExact` | `CharactersExact` |

The assumptions are those on the constants, named in the module that declares them. `SessionAssumption`: positive capacity, known statuses,
key codes other than 0. `KeyInputAssumption`: "none" and "delay" name no box and no key, every key has a report,
macros are sequences of buttons and delays that are not empty (`String.split` returns at least one item).
`ActivityAssumption`: there is a color, "none" is no box, "EXIT" is no text of the box. `DialogsAssumption`: the code is not
empty, "none" is no network. `DnsAssumption` and `BonjourAssumption`: the bounds are numbers, types are a sequence. `KeyEncodingAssumption`: a text has a unit.

**Sessions.** None of the properties is inductive. That a thread's objects exist at its step
depends on how far the main thread has torn the session down, which depends on the joins, which
depend on how far each `CLOSE_PIPE` has travelled. `SessionInv` says exactly that:

* `LiveInv` gives the objects that exist at each step of the main thread, and ties the existence of the
  two other threads to it; with it no `Fault` is enabled (`NeedsMet`).
* `LooperInv` follows `CLOSE_PIPE` through the looper pipe: absent until the main thread waits in
  `pthread_join`, then the last element and the only one, then handled, with the pipe empty. So the pipe
  has been emptied when the join returns.
* `ReaderInv` follows it through the status pipe. There it need not be last, since `foils_hid_deinit` may
  write one status behind it; but the thread that reads it posts `EXIT` and reads no more, and it is only read after
  the main thread is past closing the pipe. So a status thread that is done has posted `EXIT` last.
* `Stuck` describes the session at a rejected address: only its `Rcu` exists and no step can
  change that, so the two situations never mix.

`ReleaseInv` adds that a pending release belongs to a running loop that has not seen `CLOSE_PIPE` (it needs
`LooperInv`, for no key comes after it), and `IndicatorInv` that the last posted text is the last one read.
`KeysInOrder` is kept by every step given these two (`OrderStep`): a key written adds its reports at the end of
what is pending (`AppendReports`), a key handled moves the first ones from the pipe to the box (`FirstReports`).
The refinement splits on the steps that change the abstract phase; all others are stutters (`Unseen`).

**The activity.** `ActivityInv` has five parts besides the types, each kept by every step given those before it:

* `MainInv`: at which point of `connectFreebox` or `disconnectFreebox` the main thread is, the phase of the session and
  the active box go together; `SessionIsActive` is part of it.
* `ListInv`: list and pool know no box twice; the box being connected to is in the list.
* `FocusInv`: what has the focus is the active box, and in between at most the one being connected to, so that whatever
  is saved has one focus. `SelectionRestored` follows from it.
* `QueueInv`: no "connected" of a session that has ended is left without an `EXIT` behind it. Without late detections
  none is left once the sniffers are stopped, and while no box is active the statuses come before the
  detections: this is why `QuietWhenPaused` and `NoNullPaint` hold.
* `ColorInv`: the painter counts the colors of the list and, while the activity is resumed, no others; while it is
  paused no others than those of the pool, so that a process that dies forgets none.

`PreviousUndoesNext` is about the list alone: the next reachable box is the first one after the active one, and the
last one before that box is where it came from. `SessionsUsed` follows from `MainInv` and from what posting, delivering and
dropping detections does to the statuses of a queue (`AppendStatuses`, `ServedStatuses`, `StatusesAgain`).

**Input.** `MacroOnOneBox` and `OneCallback` are inductive, the latter with `TypeOK`; `TypeOK`
needs `MacroOnOneBox`, since a macro played without a box would record "none". `NoStuckKey` is not inductive: that
releasing a key lifts it wherever it is down needs `DownInv`, by which a report is left at a key of its own
and at none without a session. `MacroUninterrupted` rests on what one more item does to the keys of a macro (`MacroKeys`).
`AlwaysExact` has `Packed` for each number of bytes packed; a byte never carries into the next (`LowInLow` and those after it).

**Sniffers and dialogs.** `NoLeak` is inductive together with `NotMade`: a sniffer that has not been
made has no thread. `MulticastWhileListening` needs `OlderInv` too: any other thread under way beside that of the last sniffer was so
when this one acquired its lock, so that a release which takes the lock from it is of a thread in `older`. `OneRequest` is what `InOrder` and `RefusedByOther` rest on: with two requests of one sniffer an
answer could be for either, and the second would be refused on its own account. `CodeExact` joins two facts about
the iterator: the keys behind it are those of the code it has returned (`Behind`), and from every point at which it was at
its start it is as far as the keys have matched (`Ahead`).

**The safety half of liveness.** A liveness property has a part that the prover can reach: that something can always be done, and that
doing it leads somewhere. For each of them both are theorems, for every value of the constants; where fairness is about several actions, a predicate on states says what
their guards come to (`UiReady`, `LooperReady`, `ReaderReady`, `ThreadReady`, `MainReady`, `ExitReady`).

* `DisconnectReturns`: `MainThreadNeverStuck` and `CallsComeToAnEnd`. The first needs `CloseInv`: until the status thread has read
  `CLOSE_PIPE` it is in the status pipe, and the last in it up to `foils_hid_deinit`'s own status, so that a status thread the main thread
  waits for always has something to read. `StepsLeft` weighs a key in the looper pipe with the timer it may arm and the status that may follow,
  and counts the statuses the network may still report (`MaxStatus - notified`).
* `PressReleased`: `ReleaseAlwaysComing`. `IndicatorClears`: `IndicatorAlwaysSettles`, by which `EXIT` has been posted when
  disconnect returns, and `ExitAlwaysNears`.
* `BoxGetsActive`: `SwitchAlwaysGoesOn`. It needs `SwitchInv`: a box in the list is active or being connected to, and
  the main thread does not crash in the middle of a switch.
* `MacroEnds`: `MacroAlwaysGoesOn`. `StopComesToRest`: `QueueAlwaysRunsDown`.
* `StopEnds`: `StopAlwaysHeard` and `EndAlwaysNearer`. The first needs `InterruptWaits`: up to its sleep, a thread whose sniffer was stopped has its
  flag set. The second is for a finite set of addresses, as a device has.

**Only model-checked.** What is left of `DisconnectReturns`, `PressReleased`, `IndicatorClears`, `BoxGetsActive`, `MacroEnds`,
`StopEnds` and `StopComesToRest`, and of the fairness in `ImplementsSession` and `UsesSession`: that under fairness a step which stays possible is taken,
and a number that only falls comes to its end. `ENABLED`, fairness and temporal induction are beyond the prover.
Where a proof needs induction over data, it is by a least counterexample (`LeastNumber`, from the well-foundedness of the
numbers), since the library's induction theorems take an operator as a parameter. For the same reason `Statuses`, `KeysOf` and `AllReports` are
recursive functions and not `SelectSeq` or a fold, of which the prover knows nothing.

## 5. Not modelled, and why

* Failures that do not occur in normal use: `pipe(2)`, `malloc`, `pthread_create`. An interrupted `mStatusLooper.join` (nothing in
  the program interrupts the main thread). A device without Wi-Fi, for which `DnsServiceSniffer.start` has no thread to start; an
  interface without a host address; the limit Android puts on pending NSD requests.
* What the platform does beyond what the code relies on. Taken for granted are that each change of network is broadcast (`ChangeNetwork`), that
  a `Handler` is first in first out, that NSD resolves one service at a time (`Take`), and that an `AlertDialog` that was dismissed is shown again by `show`.
* That a call of JmDNS consumes an interrupt: the flag is taken to last until the thread sleeps.
* Dead keys: `%c` of a combining accent (J/MainActivity.java:233) depends on the key maps of the device.
* What a supplementary character is for the box: it is sent as its two units (`CharactersExact`), which does not fit the 24 bits that
  Rcu.cpp:80 says the report has. The box is not here.
* JNI conversions, JSON text, `Simulator` (one more source of detections, on the main thread), `ScreenFitter` (layout arithmetic), the constants and
  log texts: no state and no protocol. The `mRcu` field read by the status thread is set before the thread starts.
* `libfoils`, `libela`, `librudp` and `libevent` are here as headers only (`C/prebuilts/include`), and are modelled by their
  callbacks. They are by far most of the lines of the source tree, so that the part of all its lines that the
  definitions stand for stays small: almost all of the program's own code that has state is in it.

## 6. What is left

One composition of the sniffers with `Activity`, in place of the argument at the end of section 2 that a `Deliver` or an
`Answer` is a `Detect`. With the threads of both sniffers it is too large for the three boxes and the process death that
`activity_boxes` needs.
