------------------------------- MODULE HabGps -------------------------------
(***************************************************************************)
(* Where dl-fldigi says the listener is (src/src/dl_fldigi): a stationary  *)
(* place typed by the user, or the fixes a GPS thread reads from a serial  *)
(* port.  The main thread runs the callbacks of the configuration dialog   *)
(* and the handlers of Fl::awake, holding the Fl lock from one Fl::wait to *)
(* the next; the GPS thread takes the Fl lock to log and to upload, and    *)
(* its own mutex to look at term.                                          *)
(*                                                                         *)
(* Left out: the flights and the queue of the uploader, the group CH_INFO,  *)
(* what a position is made of, the rates and the back-off (a thread that   *)
(* sleeps wakes up).                                                       *)
(* An operator introduced as a "slip" is a mistake easily made here, kept  *)
(* beside the definition it would replace; it is not used.                 *)
(***************************************************************************)
EXTENDS Naturals

CONSTANTS
    Conf,           \* settings of the port: device, speed, period
    Startable,      \* those a thread can be started with (a device, a period)
    Place,          \* what the user may type as the stationary place
    GoodPlace,      \* the places that are numbers
    MaxMoves        \* bound: how often the user does something

Nowhere == "nowhere"
ByGps   == "by gps"

ASSUME HabGpsAssumption ==
    /\ Startable \subseteq Conf
    /\ GoodPlace \subseteq Place
    /\ Nowhere \notin Place /\ ByGps \notin Place
    /\ MaxMoves \in Nat

VARIABLES
    hab,        \* the globals of dl_fldigi, location and gps
    moves       \* moves the user may still make

vars == <<hab, moves>>

---------------------------------------------------------------------------
Groups == {"uploader", "mode", "place", "gps"}      \* enum changed_groups
Modes  == {"stationary", "gps"}                     \* enum location_mode

\* Where the GPS thread is: the outer and inner check_term ("top", "mid"), in
\* check_term with term true and the mutex held ("told"), before and in the
\* calls of run, or returned with gps_thread_death queued ("over").
Places == {"none", "top", "told top", "opening", "mid", "told mid", "reading",
           "line", "fix", "failed", "asleep", "over"}

Thread == [pc : Places, conf : Conf, term : BOOLEAN, file : BOOLEAN]

Hab ==
    [mode : Modes, newMode : Modes, conf : Conf, place : Place,
     dirty : SUBSET Groups, online : BOOLEAN,
     listener : GoodPlace \cup {Nowhere, ByGps},
     main : {"running", "stuck", "stopping gps", "stopping uploader", "ended"},
     thr : Thread, ports : Nat]
\* listener what location::listener_* hold: an invalid position, the place
\*          that was typed, or a fix
\* main     in Fl::run; for ever waiting for the thread's mutex; in the loops
\*          of gps::cleanup and hbtint::cleanup; past them, uthr deleted
\* ports    serial ports the process holds open

TypeOK == hab \in Hab /\ moves \in 0 .. MaxMoves

Exists(x)       == x.thr.pc # "none"            \* gps_thread != NULL
HoldsMutex(x)   == x.thr.pc \in {"told top", "told mid"}
ShuttingDown(x) == x.main \in {"stopping gps", "stopping uploader", "ended"}
Wanted(x)       == x.mode = "gps" /\ x.conf \in Startable

---------------------------------------------------------------------------
(* The main thread.  Each operator takes the globals to what a callback    *)
(* makes of them; a callback that meets a mutex held by a thread which     *)
(* waits for the Fl lock never returns.                                    *)

\* SIGUSR2 ends fgets with an error and sleep early; nothing else sees it.
Signalled(pc) ==
    CASE pc = "reading" -> "failed"
      [] pc = "asleep"  -> "top"
      [] OTHER          -> pc

\* GPSThread::shutdown: set_term under the mutex, then the signal.
Shutdown(x) ==
    IF HoldsMutex(x)
    THEN [x EXCEPT !.main = "stuck"]
    ELSE [x EXCEPT !.thr.term = TRUE, !.thr.pc = Signalled(@)]

\* Slip: a thread that runs keeps the settings it was started with.
ConfigureOnce(x) ==
    IF ~Exists(x) /\ Wanted(x)
    THEN [x EXCEPT !.thr = [pc |-> "top", conf |-> x.conf, term |-> FALSE, file |-> FALSE]]
    ELSE x

\* configure_gps: a thread that runs is told to stop, and its death calls this
\* again; else one is started if the mode and the settings ask for it.
ConfigureGps(x) ==
    IF Exists(x)
    THEN Shutdown(x)
    ELSE IF Wanted(x)
    THEN [x EXCEPT !.thr = [pc |-> "top", conf |-> x.conf, term |-> FALSE, file |-> FALSE]]
    ELSE x

\* listener_telemetry and update_stationary
ListenerTelemetry(x) ==
    IF x.mode = "gps"
    THEN x
    ELSE [x EXCEPT !.listener = IF x.place \in GoodPlace THEN x.place ELSE Nowhere]

\* commit
Commit(x) ==
    LET a == IF "mode" \in x.dirty THEN [x EXCEPT !.mode = x.newMode] ELSE x
        b == IF x.dirty \cap {"mode", "gps"} # {} THEN ConfigureGps(a) ELSE a
        c == IF x.dirty \cap {"place", "mode", "uploader"} # {} THEN ListenerTelemetry(b) ELSE b
    IN  IF b.main = "stuck" THEN b ELSE [c EXCEPT !.dirty = {}]

\* online: from the menu, or from the dialog, which commits first.
SetOnline(x, val) ==
    LET y == [x EXCEPT !.online = val]
    IN  IF val /\ ~x.online THEN ListenerTelemetry(y) ELSE y

DialogOnline(x, val) ==
    LET y == IF val THEN Commit(x) ELSE x
    IN  IF y.main = "stuck" THEN y ELSE SetOnline(y, val)

Buried(x) == [x EXCEPT !.thr.pc = "none", !.thr.term = FALSE, !.thr.file = FALSE]

\* Slip: nobody starts the thread that the new settings ask for.
DeathWithoutRestart(x) == Buried(x)

\* Slip: the thread is started anew although the program shuts down.
DeathAlwaysRestarts(x) == ConfigureGps(Buried(x))

\* gps_thread_death
GpsThreadDeath(x) == IF ShuttingDown(x) THEN Buried(x) ELSE ConfigureGps(Buried(x))

\* Slip: the GPS thread is told, and not waited for.
CleanupAtOnce(x) ==
    LET y == [x EXCEPT !.main = "stopping uploader"]
    IN  IF Exists(y) THEN Shutdown(y) ELSE y

\* cleanup, up to the loop of gps::cleanup
Cleanup(x) ==
    LET y == [x EXCEPT !.main = "stopping gps"]
    IN  IF Exists(y) THEN Shutdown(y) ELSE y

---------------------------------------------------------------------------
(* The GPS thread.  It waits for the Fl lock while the main thread is stuck. *)

FlFree(x) == x.main # "stuck"

Goes(x, pc) == [x EXCEPT !.thr.pc = pc]

\* Slip: the position is taken whatever the mode has become.
UploadBlindly(x) == Goes([x EXCEPT !.listener = ByGps], "mid")

\* upload, when it is due
Upload(x) ==
    IF x.mode # "gps"
    THEN Goes(x, "failed")
    ELSE Goes([x EXCEPT !.listener = ByGps], "mid")

\* Slip: the port is closed without a look whether it is open.
CloseBlindly(x) == [x EXCEPT !.ports = @ - 1, !.thr.file = FALSE]

\* GPSThread::cleanup
Close(x) == [x EXCEPT !.ports = IF x.thr.file THEN @ - 1 ELSE @, !.thr.file = FALSE]

CheckTerm ==
    \/ /\ hab.thr.pc = "top"
       /\ hab' = Goes(hab, IF hab.thr.term THEN "told top" ELSE "opening")
    \/ /\ hab.thr.pc = "mid"
       /\ hab' = Goes(hab, IF hab.thr.term THEN "told mid" ELSE "reading")

\* The rest of check_term when term is true; out of the inner loop the thread
\* comes to the outer check, out of the outer one to its end.
LogTerm ==
    /\ HoldsMutex(hab) /\ FlFree(hab)
    /\ hab' = Goes(hab, IF hab.thr.pc = "told mid" THEN "top" ELSE "over")

\* setup and its log; a port that was opened and could not be set up is closed
\* with the failure and not counted.
Setup ==
    /\ hab.thr.pc = "opening"
    /\ \/ hab' = Goes(hab, "failed")
       \/ /\ FlFree(hab)
          /\ hab' = [Goes(hab, "mid") EXCEPT !.ports = @ + 1, !.thr.file = TRUE]

\* read: fgets returns a line or fails.
ReadLine ==
    /\ hab.thr.pc = "reading"
    /\ \E pc \in {"line", "failed"} : hab' = Goes(hab, pc)

\* The line is no fix, cannot be parsed, or is a fix.
ParseLine ==
    /\ hab.thr.pc = "line" /\ FlFree(hab)
    /\ \E pc \in {"mid", "failed", "fix"} : hab' = Goes(hab, pc)

\* A fix that comes before the next upload is due is passed over.
UseFix ==
    /\ hab.thr.pc = "fix" /\ FlFree(hab)
    /\ hab' = Goes(hab, "mid") \/ hab' = Upload(hab)

\* catch (runtime_error): warning, cleanup, wait
Fail ==
    /\ hab.thr.pc = "failed" /\ FlFree(hab)
    /\ hab' = Goes(Close(hab), "asleep")

WakeUp == hab.thr.pc = "asleep" /\ hab' = Goes(hab, "top")

ThreadStep ==
    /\ \/ CheckTerm \/ LogTerm \/ Setup \/ ReadLine \/ ParseLine \/ UseFix \/ Fail \/ WakeUp
    /\ UNCHANGED moves

---------------------------------------------------------------------------
(* The main thread's events *)

\* Fl::awake runs the handler in Fl::wait, in the main loop or in a loop of
\* cleanup.
ThreadDies ==
    /\ hab.thr.pc = "over"
    /\ hab.main \notin {"stuck", "ended"}
    /\ hab' = GpsThreadDeath(hab)
    /\ UNCHANGED moves

\* The loop of gps::cleanup ends when the thread is gone, that of
\* hbtint::cleanup when the uploader thread has ended (external).
CleanupGoesOn ==
    /\ \/ /\ hab.main = "stopping gps" /\ ~Exists(hab)
          /\ hab' = [hab EXCEPT !.main = "stopping uploader"]
       \/ /\ hab.main = "stopping uploader"
          /\ hab' = [hab EXCEPT !.main = "ended"]
    /\ UNCHANGED moves

\* The windows are hidden when the program is left: then nobody acts.
UserDoes(after) ==
    /\ hab.main = "running" /\ moves > 0
    /\ hab' = after
    /\ moves' = moves - 1

Marked(x, group) == [x EXCEPT !.dirty = @ \cup {group}]

ChangeGps      == \E c \in Conf : UserDoes([Marked(hab, "gps") EXCEPT !.conf = c])
ChangePlace    == \E p \in Place : UserDoes([Marked(hab, "place") EXCEPT !.place = p])
PickMode       == \E m \in Modes : UserDoes([Marked(hab, "mode") EXCEPT !.newMode = m])
ChangeUploader == UserDoes(Marked(hab, "uploader"))
Apply          == UserDoes(Commit(hab))
MenuOnline     == \E val \in BOOLEAN : UserDoes(SetOnline(hab, val))
DialogOnlines  == \E val \in BOOLEAN : UserDoes(DialogOnline(hab, val))
Exit           == UserDoes(Cleanup(hab))

---------------------------------------------------------------------------
NoThread(c) == [pc |-> "none", conf |-> c, term |-> FALSE, file |-> FALSE]

\* ready: location::start, then online(hab_mode).
Init ==
    /\ moves = MaxMoves
    /\ \E m \in Modes, c \in Conf, p \in Place, hab_mode \in BOOLEAN :
        LET loaded == [mode |-> m, newMode |-> "stationary", conf |-> c, place |-> p,
                       dirty |-> {}, online |-> FALSE, listener |-> Nowhere,
                       main |-> "running", thr |-> NoThread(c), ports |-> 0]
        IN  hab = SetOnline(ConfigureGps(loaded), hab_mode)

Next ==
    \/ ThreadStep
    \/ ThreadDies \/ CleanupGoesOn
    \/ ChangeGps \/ ChangePlace \/ PickMode \/ ChangeUploader
    \/ Apply \/ MenuOnline \/ DialogOnlines \/ Exit

Spec == Init /\ [][Next]_vars

\* The thread is scheduled, the receiver sends its sentences, the main loop
\* runs what is queued for it, and the uploader thread ends when told.
FairSpec ==
    /\ Spec
    /\ WF_vars(ThreadStep) /\ WF_vars(ThreadDies) /\ WF_vars(CleanupGoesOn)

---------------------------------------------------------------------------
(* Properties *)

Uncommitted(x) == x.dirty \cap {"mode", "gps"} # {}
Told(x)        == Exists(x) /\ x.thr.term

\* In stationary mode no fix is left or taken as the listener's place, also not
\* the one of a line that was being read when the mode changed (commit, upload).
StationaryKept ==
    hab.mode = "stationary" /\ hab.main # "stuck" => hab.listener # ByGps

\* A thread that has not been told to stop runs with the settings committed
\* last, and only in GPS mode (configure_gps, commit, gps_thread_death).
FollowsSettings ==
    Exists(hab) /\ ~hab.thr.term /\ ~Uncommitted(hab) =>
        Wanted(hab) /\ hab.thr.conf = hab.conf

\* upload uses hbtint::uthr unasked: the uploader is there as long as the GPS
\* thread is (dl_fldigi::cleanup).
UploaderOutlivesThread == hab.main = "ended" => ~Exists(hab)

\* Refuted, and in no configuration: one port at most is open (setup: "Rely on
\* cleanup()").  A thread told to stop between two lines leaves without cleanup.
OnePortOpen == hab.ports <= 1

\* What was committed comes into effect: in the end a thread with these
\* settings runs, or none if none is wanted (configure_gps, gps_thread_death).
SettingsTakeEffect ==
    hab.main = "running" /\ ~Uncommitted(hab)
        ~> \/ hab.main # "running" \/ Uncommitted(hab)
           \/ IF Wanted(hab)
              THEN Exists(hab) /\ ~hab.thr.term /\ hab.thr.conf = hab.conf
              ELSE ~Exists(hab)

\* Leaving the program comes to an end, once both threads have (cleanup).
ExitEnds == hab.main = "stopping gps" ~> hab.main = "ended"

\* A thread that was told to stop dies (configure_gps).
DiesWhenTold == Told(hab) ~> ~Told(hab)
=============================================================================
