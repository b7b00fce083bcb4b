---------------------------- MODULE HabGps_proofs ----------------------------
(***************************************************************************)
(* What HabGps promises holds for every set of settings and places, and    *)
(* however often the user acts.  The invariants of the run are not         *)
(* inductive by themselves: a stop that meets the thread's mutex is        *)
(* harmless to FollowsSettings only because the thread has been told       *)
(* already, a port is closed only by a thread that has opened it, and the  *)
(* uploader ends late enough only because the loop of gps::cleanup has     *)
(* been left with no thread there and none is started any more.            *)
(***************************************************************************)
EXTENDS HabGps, TLAPS

Whole(x) ==
    /\ x \in Hab
    /\ x.thr.file => x.ports > 0
    /\ HoldsMutex(x) => x.thr.term

Follows(x) ==
    Exists(x) /\ ~x.thr.term /\ ~Uncommitted(x) => Wanted(x) /\ x.thr.conf = x.conf

Kept(x) == x.mode = "stationary" /\ x.main # "stuck" => x.listener # ByGps

Outlived(x) == x.main \in {"stopping uploader", "ended"} => ~Exists(x)

Good(x) == Whole(x) /\ Follows(x) /\ Kept(x) /\ Outlived(x)

IInv == Good(hab) /\ moves \in 0 .. MaxMoves

---------------------------------------------------------------------------
(* What the operators of the main thread keep *)

\* y differs from x in its thread, and in main where the callback is stuck.
Touches(x, y) ==
    /\ y.mode = x.mode /\ y.newMode = x.newMode /\ y.conf = x.conf /\ y.place = x.place
    /\ y.dirty = x.dirty /\ y.online = x.online /\ y.listener = x.listener
    /\ y.ports = x.ports
    /\ y.main \in {x.main, "stuck"}

\* Shutdown leaves a thread that has been told, whether the call returns or not.
LEMMA ShutdownTells ==
    ASSUME NEW x, Whole(x), Exists(x)
    PROVE  /\ Whole(Shutdown(x))
           /\ Touches(x, Shutdown(x))
           /\ Shutdown(x).thr.term
<1>1. CASE HoldsMutex(x)
  BY <1>1 DEF Shutdown, Whole, Hab, HoldsMutex, Touches
<1>2. CASE ~HoldsMutex(x)
  <2> DEFINE t == [x.thr EXCEPT !.term = TRUE, !.pc = Signalled(x.thr.pc)]
  <2>1. x.thr \in Thread /\ x \in Hab
    BY DEF Whole, Hab
  <2>2. Signalled(x.thr.pc) \in Places \ {"told top", "told mid"}
    BY <1>2, <2>1 DEF Signalled, Places, HoldsMutex, Thread
  <2>3. t \in Thread /\ t.term /\ t.file = x.thr.file /\ t.pc \notin {"told top", "told mid"}
    BY <2>1, <2>2 DEF Thread
  <2>4. Shutdown(x) = [x EXCEPT !.thr = t]
    BY <1>2, <2>1 DEF Shutdown, Hab, Thread
  <2>. HIDE DEF t
  <2>. QED BY <2>1, <2>3, <2>4 DEF Whole, Hab, HoldsMutex, Touches
<1>. QED BY <1>1, <1>2

\* After configure_gps a thread has been told to stop, or runs as wanted.
LEMMA ConfigureGpsFollows ==
    ASSUME NEW x, Whole(x)
    PROVE  LET y == ConfigureGps(x)
           IN  /\ Whole(y)
               /\ Touches(x, y)
               /\ Exists(y) => y.thr.term \/ (Wanted(y) /\ y.thr.conf = y.conf)
<1>1. CASE Exists(x)
  BY <1>1, ShutdownTells DEF ConfigureGps
<1>2. CASE ~Exists(x)
  BY <1>2 DEF ConfigureGps, Whole, Hab, Thread, Exists, HoldsMutex, Wanted, Places, Touches
<1>. QED BY <1>1, <1>2

\* The listener is where the user says, once the mode is stationary.
LEMMA ListenerTelemetryKeeps ==
    ASSUME NEW x, Whole(x)
    PROVE  LET y == ListenerTelemetry(x)
           IN  /\ Whole(y)
               /\ y.mode = x.mode /\ y.newMode = x.newMode /\ y.conf = x.conf
               /\ y.place = x.place /\ y.dirty = x.dirty /\ y.online = x.online
               /\ y.main = x.main /\ y.thr = x.thr
               /\ y.listener = x.listener \/ y.listener # ByGps
               /\ y.mode = "stationary" => y.listener # ByGps
BY HabGpsAssumption DEF ListenerTelemetry, Whole, Hab, HoldsMutex, Modes, Nowhere, ByGps

LEMMA CommitGood ==
    ASSUME NEW x, Good(x), x.main = "running"
    PROVE  Good(Commit(x))
<1> DEFINE a == IF "mode" \in x.dirty THEN [x EXCEPT !.mode = x.newMode] ELSE x
           b == IF x.dirty \cap {"mode", "gps"} # {} THEN ConfigureGps(a) ELSE a
           c == IF x.dirty \cap {"place", "mode", "uploader"} # {} THEN ListenerTelemetry(b) ELSE b
<1>1. /\ Whole(a)
      /\ a.conf = x.conf /\ a.dirty = x.dirty /\ a.main = "running" /\ a.thr = x.thr
      /\ a.listener = x.listener
      /\ "mode" \notin x.dirty => a.mode = x.mode
  BY DEF Good, Whole, Hab, HoldsMutex
<1>2. /\ Whole(b)
      /\ b.mode = a.mode /\ b.conf = x.conf /\ b.dirty = x.dirty /\ b.listener = x.listener
      /\ b.main \in {"running", "stuck"}
      /\ Exists(b) => b.thr.term \/ (Wanted(b) /\ b.thr.conf = b.conf)
  <2>. HIDE DEF a
  <2>1. CASE x.dirty \cap {"mode", "gps"} # {}
    BY <1>1, <2>1, ConfigureGpsFollows DEF Touches
  <2>2. CASE x.dirty \cap {"mode", "gps"} = {}
    <3>1. a.mode = x.mode
      BY <1>1, <2>2
    <3>. QED BY <1>1, <2>2, <3>1 DEF Good, Follows, Exists, Wanted, Uncommitted
  <2>. QED BY <2>1, <2>2
<1>3. CASE b.main = "stuck"
  <2>1. Commit(x) = b
    BY <1>3 DEF Commit
  <2>. HIDE DEF a, b
  <2>. QED BY <1>2, <1>3, <2>1 DEF Good, Follows, Kept, Outlived
<1>4. CASE b.main = "running"
  <2>1. /\ Whole(c)
        /\ c.mode = b.mode /\ c.conf = b.conf /\ c.main = "running" /\ c.thr = b.thr
        /\ c.mode = "stationary" => c.listener # ByGps
    <3>1. CASE x.dirty \cap {"place", "mode", "uploader"} # {}
      <4>. HIDE DEF b
      <4>. QED BY <1>2, <1>4, <3>1, ListenerTelemetryKeeps
    <3>2. CASE x.dirty \cap {"place", "mode", "uploader"} = {}
      <4>1. b.mode = x.mode /\ b.listener = x.listener /\ "mode" \notin x.dirty
        <5>. HIDE DEF a, b
        <5>. QED BY <1>1, <1>2, <3>2
      <4>2. c = b
        BY <3>2
      <4>. HIDE DEF b, c
      <4>. QED BY <1>2, <1>4, <4>1, <4>2 DEF Good, Kept
    <3>. QED BY <3>1, <3>2
  <2>2. Commit(x) = [c EXCEPT !.dirty = {}]
    BY <1>4 DEF Commit
  <2>. HIDE DEF a, b, c
  <2>3. Exists(c) => c.thr.term \/ (Wanted(c) /\ c.thr.conf = c.conf)
    BY <1>2, <2>1 DEF Exists, Wanted
  <2>4. c \in Hab
    BY <2>1 DEF Whole
  <2> DEFINE d == [c EXCEPT !.dirty = {}]
  <2>5. /\ d \in Hab
        /\ d.mode = c.mode /\ d.conf = c.conf /\ d.main = "running" /\ d.thr = c.thr
        /\ d.listener = c.listener /\ d.ports = c.ports
    BY <2>1, <2>4 DEF Hab
  <2>. HIDE DEF d
  <2>6. Whole(d)
    BY <2>1, <2>5 DEF Whole, HoldsMutex
  <2>7. Good(d)
    BY <2>1, <2>3, <2>5, <2>6 DEF Good, Follows, Kept, Outlived, Exists, Wanted
  <2>. QED BY <2>2, <2>7 DEF d
<1>5. b.main \in {"running", "stuck"}
  <2>. HIDE DEF b
  <2>. QED BY <1>2
<1>. QED BY <1>3, <1>4, <1>5

LEMMA SetOnlineGood ==
    ASSUME NEW x, Good(x), NEW val \in BOOLEAN
    PROVE  Good(SetOnline(x, val))
<1> DEFINE y == [x EXCEPT !.online = val]
<1>1. /\ Whole(y)
      /\ y.mode = x.mode /\ y.conf = x.conf /\ y.dirty = x.dirty /\ y.main = x.main
      /\ y.thr = x.thr /\ y.listener = x.listener
  BY DEF Good, Whole, Hab, HoldsMutex
<1>2. Good(y)
  <2>. HIDE DEF y
  <2>. QED BY <1>1 DEF Good, Follows, Kept, Outlived, Exists, Wanted, Uncommitted
<1>3. Good(ListenerTelemetry(y))
  <2>. HIDE DEF y
  <2>. QED BY <1>2, ListenerTelemetryKeeps
           DEF Good, Follows, Kept, Outlived, Exists, Wanted, Uncommitted
<1>. QED BY <1>2, <1>3 DEF SetOnline

LEMMA DialogOnlineGood ==
    ASSUME NEW x, Good(x), x.main = "running", NEW val \in BOOLEAN
    PROVE  Good(DialogOnline(x, val))
BY CommitGood, SetOnlineGood DEF DialogOnline

LEMMA BuriedGood ==
    ASSUME NEW x, Good(x)
    PROVE  LET y == Buried(x)
           IN  Good(y) /\ ~Exists(y) /\ y.main = x.main
<1> DEFINE t == [x.thr EXCEPT !.pc = "none", !.term = FALSE, !.file = FALSE]
           y == [x EXCEPT !.thr = t]
<1>1. x \in Hab /\ x.thr \in Thread
  BY DEF Good, Whole, Hab
<1>2. t \in Thread /\ t.pc = "none" /\ t.file = FALSE
  BY <1>1 DEF Thread, Places
<1>3. Buried(x) = y
  BY <1>1 DEF Buried, Hab, Thread
<1>. HIDE DEF t
<1>4. /\ y \in Hab
      /\ y.mode = x.mode /\ y.main = x.main /\ y.listener = x.listener /\ y.thr = t
  BY <1>1, <1>2 DEF Hab
<1>. HIDE DEF y
<1>. QED BY <1>2, <1>3, <1>4
         DEF Good, Whole, Follows, Kept, Outlived, Exists, HoldsMutex

\* Nobody starts a thread once the program shuts down.
LEMMA GpsThreadDeathGood ==
    ASSUME NEW x, Good(x), x.main \notin {"stuck", "ended"}
    PROVE  Good(GpsThreadDeath(x))
<1> DEFINE y == Buried(x)
<1>1. Good(y) /\ ~Exists(y) /\ y.main = x.main
  BY BuriedGood
<1>2. CASE ShuttingDown(x)
  BY <1>1, <1>2 DEF GpsThreadDeath
<1>3. CASE ~ShuttingDown(x)
  <2>1. x.main = "running"
    BY <1>3 DEF ShuttingDown, Good, Whole, Hab
  <2>. HIDE DEF y
  <2>2. Whole(y)
    BY <1>1 DEF Good
  <2>3. Good(ConfigureGps(y))
    BY <1>1, <2>1, <2>2, ConfigureGpsFollows
       DEF Good, Follows, Kept, Outlived, Touches, Uncommitted
  <2>. QED BY <1>3, <2>3 DEF GpsThreadDeath, y
<1>. QED BY <1>2, <1>3

LEMMA CleanupGood ==
    ASSUME NEW x, Good(x), x.main = "running"
    PROVE  Good(Cleanup(x))
<1> DEFINE y == [x EXCEPT !.main = "stopping gps"]
<1>1. /\ Whole(y)
      /\ y.mode = x.mode /\ y.conf = x.conf /\ y.dirty = x.dirty
      /\ y.main = "stopping gps" /\ y.thr = x.thr /\ y.listener = x.listener
  BY DEF Good, Whole, Hab, HoldsMutex
<1>2. Good(y)
  <2>. HIDE DEF y
  <2>. QED BY <1>1 DEF Good, Follows, Kept, Outlived, Exists, Wanted, Uncommitted
<1>3. CASE Exists(y)
  <2>. HIDE DEF y
  <2>1. Good(Shutdown(y))
    BY <1>1, <1>2, <1>3, ShutdownTells DEF Good, Follows, Kept, Outlived, Touches
  <2>. QED BY <1>3, <2>1 DEF Cleanup, y
<1>. QED BY <1>2, <1>3 DEF Cleanup

---------------------------------------------------------------------------
(* The GPS thread *)

\* Steps that take the thread from one place in run to another.
LEMMA GoesGood ==
    ASSUME NEW x, Good(x), Exists(x), NEW pc \in Places \ {"none"},
           pc \in {"told top", "told mid"} => x.thr.term
    PROVE  Good(Goes(x, pc))
<1> DEFINE t == [x.thr EXCEPT !.pc = pc]
           y == [x EXCEPT !.thr = t]
<1>1. x \in Hab /\ x.thr \in Thread
  BY DEF Good, Whole, Hab
<1>2. /\ t \in Thread /\ t.pc = pc
      /\ t.term = x.thr.term /\ t.file = x.thr.file /\ t.conf = x.thr.conf
  BY <1>1 DEF Thread
<1>3. Goes(x, pc) = y
  BY <1>1 DEF Goes, Hab, Thread
<1>. HIDE DEF t
<1>4. /\ y \in Hab
      /\ y.mode = x.mode /\ y.conf = x.conf /\ y.main = x.main /\ y.dirty = x.dirty
      /\ y.listener = x.listener /\ y.thr = t /\ y.ports = x.ports
  BY <1>1, <1>2 DEF Hab
<1>. HIDE DEF y
<1>. QED BY <1>2, <1>3, <1>4
         DEF Good, Whole, Follows, Kept, Outlived, Exists, HoldsMutex, Wanted, Uncommitted

LEMMA UploadGood ==
    ASSUME NEW x, Good(x), Exists(x)
    PROVE  Good(Upload(x))
<1> DEFINE y == [x EXCEPT !.listener = ByGps]
<1>1. CASE x.mode # "gps"
  BY <1>1, GoesGood DEF Upload, Places
<1>2. CASE x.mode = "gps"
  <2>1. /\ Whole(y)
        /\ y.mode = x.mode /\ y.conf = x.conf /\ y.main = x.main /\ y.dirty = x.dirty
        /\ y.thr = x.thr
    BY DEF Good, Whole, Hab, HoldsMutex
  <2>. HIDE DEF y
  <2>2. Good(y) /\ Exists(y)
    BY <1>2, <2>1 DEF Good, Follows, Kept, Outlived, Exists, Wanted, Uncommitted
  <2>3. Good(Goes(y, "mid"))
    BY <2>2, GoesGood DEF Places
  <2>. QED BY <1>2, <2>3 DEF Upload, y
<1>. QED BY <1>1, <1>2

\* A port is closed by the thread that has it open.
LEMMA CloseGood ==
    ASSUME NEW x, Good(x), Exists(x)
    PROVE  Good(Close(x)) /\ Exists(Close(x))
<1> DEFINE t == [x.thr EXCEPT !.file = FALSE]
           p == IF x.thr.file THEN x.ports - 1 ELSE x.ports
           y == [x EXCEPT !.ports = p, !.thr = t]
<1>1. x \in Hab /\ x.thr \in Thread /\ (x.thr.file => x.ports > 0) /\ x.ports \in Nat
  BY DEF Good, Whole, Hab
<1>2. /\ t \in Thread /\ t.pc = x.thr.pc /\ t.file = FALSE
      /\ t.term = x.thr.term /\ t.conf = x.thr.conf
  BY <1>1 DEF Thread
<1>3. Close(x) = y
  BY <1>1 DEF Close, Hab, Thread
<1>5. p \in Nat
  BY <1>1
<1>. HIDE DEF t, p
<1>4. /\ y \in Hab
      /\ y.mode = x.mode /\ y.conf = x.conf /\ y.main = x.main /\ y.dirty = x.dirty
      /\ y.listener = x.listener /\ y.thr = t
  BY <1>1, <1>2, <1>5 DEF Hab
<1>. HIDE DEF y
<1>. QED BY <1>2, <1>3, <1>4
         DEF Good, Whole, Follows, Kept, Outlived, Exists, HoldsMutex, Wanted, Uncommitted

LEMMA SetupGood ==
    ASSUME NEW x, Good(x), x.thr.pc = "opening"
    PROVE  Good([Goes(x, "mid") EXCEPT !.ports = @ + 1, !.thr.file = TRUE])
<1> DEFINE g == Goes(x, "mid")
           t == [g.thr EXCEPT !.file = TRUE]
           p == g.ports + 1
           y == [g EXCEPT !.ports = p, !.thr = t]
<1>1. Good(g) /\ g.thr.pc = "mid"
  BY GoesGood DEF Places, Exists, Goes, Good, Whole, Hab, Thread
<1>. HIDE DEF g
<1>2. g \in Hab /\ g.thr \in Thread /\ g.ports \in Nat
  BY <1>1 DEF Good, Whole, Hab
<1>3. /\ t \in Thread /\ t.pc = "mid"
      /\ t.term = g.thr.term /\ t.conf = g.thr.conf
  BY <1>1, <1>2 DEF Thread
<1>4. [g EXCEPT !.ports = @ + 1, !.thr.file = TRUE] = y
  BY <1>2 DEF Hab, Thread
<1>7. p \in Nat /\ p > 0
  BY <1>2
<1>. HIDE DEF t, p
<1>5. /\ y \in Hab
      /\ y.mode = g.mode /\ y.conf = g.conf /\ y.main = g.main /\ y.dirty = g.dirty
      /\ y.listener = g.listener /\ y.thr = t /\ y.ports = p
  BY <1>2, <1>3, <1>7 DEF Hab
<1>. HIDE DEF y
<1>6. Good(y)
  BY <1>1, <1>3, <1>5, <1>7
     DEF Good, Whole, Follows, Kept, Outlived, Exists, HoldsMutex, Wanted, Uncommitted
<1>. QED BY <1>4, <1>6 DEF g

\* Every step of the GPS thread.
LEMMA ThreadStepGood ==
    ASSUME Good(hab), ThreadStep
    PROVE  Good(hab')
<1>1. CASE CheckTerm
  BY <1>1, GoesGood DEF CheckTerm, Exists, Places
<1>2. CASE LogTerm
  BY <1>2, GoesGood DEF LogTerm, HoldsMutex, Exists, Places
<1>3. CASE Setup
  BY <1>3, GoesGood, SetupGood DEF Setup, Exists, Places
<1>4. CASE ReadLine \/ ParseLine
  BY <1>4, GoesGood DEF ReadLine, ParseLine, Exists, Places
<1>5. CASE UseFix
  BY <1>5, GoesGood, UploadGood DEF UseFix, Exists, Places
<1>6. CASE Fail
  BY <1>6, GoesGood, CloseGood DEF Fail, Exists, Places
<1>7. CASE WakeUp
  BY <1>7, GoesGood DEF WakeUp, Exists, Places
<1>. QED BY <1>1, <1>2, <1>3, <1>4, <1>5, <1>6, <1>7 DEF ThreadStep

---------------------------------------------------------------------------
(* What the dialog marks is committed later *)

\* A change of one setting together with its mark, or with no thread affected.
LEMMA MarkedGood ==
    ASSUME NEW x, Good(x)
    PROVE  /\ \A c \in Conf : Good([Marked(x, "gps") EXCEPT !.conf = c])
           /\ \A p \in Place : Good([Marked(x, "place") EXCEPT !.place = p])
           /\ \A m \in Modes : Good([Marked(x, "mode") EXCEPT !.newMode = m])
           /\ Good(Marked(x, "uploader"))
<1>. x \in Hab
  BY DEF Good, Whole
<1>1. ASSUME NEW y \in Hab,
             y.mode = x.mode, y.main = x.main, y.listener = x.listener,
             y.thr = x.thr, y.ports = x.ports,
             x.dirty \subseteq y.dirty,
             y.conf = x.conf \/ "gps" \in y.dirty
      PROVE  Good(y)
  BY <1>1 DEF Good, Whole, Follows, Kept, Outlived, Exists, HoldsMutex, Wanted, Uncommitted
<1>2. \A c \in Conf : Good([Marked(x, "gps") EXCEPT !.conf = c])
  <2>. TAKE c \in Conf
  <2>. DEFINE y == [Marked(x, "gps") EXCEPT !.conf = c]
  <2>1. /\ y \in Hab /\ y.mode = x.mode /\ y.main = x.main /\ y.listener = x.listener
        /\ y.thr = x.thr /\ y.ports = x.ports /\ y.dirty = x.dirty \cup {"gps"}
    BY DEF Marked, Hab, Groups
  <2>. HIDE DEF y
  <2>2. Good(y)
    BY <1>1, <2>1
  <2>. QED BY <2>2 DEF y
<1>3. \A p \in Place : Good([Marked(x, "place") EXCEPT !.place = p])
  <2>. TAKE p \in Place
  <2>. DEFINE y == [Marked(x, "place") EXCEPT !.place = p]
  <2>1. /\ y \in Hab /\ y.mode = x.mode /\ y.main = x.main /\ y.listener = x.listener
        /\ y.thr = x.thr /\ y.ports = x.ports /\ y.dirty = x.dirty \cup {"place"}
        /\ y.conf = x.conf
    BY DEF Marked, Hab, Groups
  <2>. HIDE DEF y
  <2>2. Good(y)
    BY <1>1, <2>1
  <2>. QED BY <2>2 DEF y
<1>4. \A m \in Modes : Good([Marked(x, "mode") EXCEPT !.newMode = m])
  <2>. TAKE m \in Modes
  <2>. DEFINE y == [Marked(x, "mode") EXCEPT !.newMode = m]
  <2>1. /\ y \in Hab /\ y.mode = x.mode /\ y.main = x.main /\ y.listener = x.listener
        /\ y.thr = x.thr /\ y.ports = x.ports /\ y.dirty = x.dirty \cup {"mode"}
        /\ y.conf = x.conf
    BY DEF Marked, Hab, Groups
  <2>. HIDE DEF y
  <2>2. Good(y)
    BY <1>1, <2>1
  <2>. QED BY <2>2 DEF y
<1>5. Good(Marked(x, "uploader"))
  <2>. DEFINE y == Marked(x, "uploader")
  <2>1. /\ y \in Hab /\ y.mode = x.mode /\ y.main = x.main /\ y.listener = x.listener
        /\ y.thr = x.thr /\ y.ports = x.ports /\ y.dirty = x.dirty \cup {"uploader"}
        /\ y.conf = x.conf
    BY DEF Marked, Hab, Groups
  <2>. HIDE DEF y
  <2>2. Good(y)
    BY <1>1, <2>1
  <2>. QED BY <2>2 DEF y
<1>. QED BY <1>2, <1>3, <1>4, <1>5

---------------------------------------------------------------------------
LEMMA InitGood == Init => IInv
<1>. SUFFICES ASSUME Init PROVE IInv
  OBVIOUS
<1>1. PICK m \in Modes, c \in Conf, p \in Place, hab_mode \in BOOLEAN :
        LET loaded == [mode |-> m, newMode |-> "stationary", conf |-> c, place |-> p,
                       dirty |-> {}, online |-> FALSE, listener |-> Nowhere,
                       main |-> "running", thr |-> NoThread(c), ports |-> 0]
        IN  hab = SetOnline(ConfigureGps(loaded), hab_mode)
  BY DEF Init
<1>. DEFINE loaded == [mode |-> m, newMode |-> "stationary", conf |-> c, place |-> p,
                       dirty |-> {}, online |-> FALSE, listener |-> Nowhere,
                       main |-> "running", thr |-> NoThread(c), ports |-> 0]
<1>2. Good(loaded)
  BY DEF Good, Whole, Follows, Kept, Outlived, Exists, HoldsMutex, NoThread, Hab, Thread,
         Places, Modes, Nowhere, ByGps
<1>3. loaded.main = "running"
  OBVIOUS
<1>. HIDE DEF loaded
<1>4. Good(ConfigureGps(loaded))
  BY <1>2, <1>3, ConfigureGpsFollows DEF Good, Follows, Kept, Outlived, Touches, Uncommitted
<1>5. Good(hab)
  BY <1>1, <1>4, SetOnlineGood DEF loaded
<1>. QED BY <1>5, HabGpsAssumption DEF Init, IInv

\* One case per handler, or per step of the thread.
LEMMA NextGood == IInv /\ [Next]_vars => IInv'
<1>. SUFFICES ASSUME IInv, [Next]_vars PROVE IInv'
  OBVIOUS
<1>0. Good(hab) /\ moves \in 0 .. MaxMoves
  BY DEF IInv
<1>1. CASE ThreadStep
  BY <1>0, <1>1, ThreadStepGood DEF IInv, ThreadStep
<1>2. CASE ThreadDies
  BY <1>0, <1>2, GpsThreadDeathGood DEF IInv, ThreadDies
<1>3. CASE CleanupGoesOn
  <2>1. Good(hab')
    BY <1>0, <1>3
       DEF CleanupGoesOn, Good, Whole, Hab, Follows, Kept, Outlived, Exists, HoldsMutex,
           Wanted, Uncommitted
  <2>. QED BY <1>0, <1>3, <2>1 DEF IInv, CleanupGoesOn
<1>4. ASSUME NEW after, UserDoes(after), Good(after)
      PROVE  IInv'
  BY <1>0, <1>4, HabGpsAssumption DEF UserDoes, IInv
<1>5. CASE ChangeGps \/ ChangePlace \/ PickMode \/ ChangeUploader
  BY <1>0, <1>4, <1>5, MarkedGood DEF ChangeGps, ChangePlace, PickMode, ChangeUploader
<1>6. CASE Apply
  BY <1>0, <1>4, <1>6, CommitGood DEF Apply, UserDoes
<1>7. CASE MenuOnline \/ DialogOnlines
  BY <1>0, <1>4, <1>7, SetOnlineGood, DialogOnlineGood DEF MenuOnline, DialogOnlines, UserDoes
<1>8. CASE Exit
  BY <1>0, <1>4, <1>8, CleanupGood DEF Exit, UserDoes
<1>9. CASE UNCHANGED vars
  BY <1>0, <1>9 DEF vars, IInv
<1>. QED BY <1>1, <1>2, <1>3, <1>5, <1>6, <1>7, <1>8, <1>9 DEF Next

\* The inductive invariant of the listener's position and its thread.
THEOREM HabInvariance == Spec => []IInv
<1>1. Init => IInv
  BY InitGood
<1>2. IInv /\ [Next]_vars => IInv'
  BY NextGood
<1>. QED BY <1>1, <1>2, PTL DEF Spec

\* Every global keeps its type; the number of open ports never falls below 0.
THEOREM HabTypeCorrect == Spec => []TypeOK
<1>1. IInv => TypeOK
  BY DEF IInv, Good, Whole, TypeOK
<1>. QED BY <1>1, HabInvariance, PTL

\* In stationary mode no fix of the GPS is the listener's place (commit, upload).
THEOREM StationaryIsKept == Spec => []StationaryKept
<1>1. IInv => StationaryKept
  BY DEF IInv, Good, Kept, StationaryKept
<1>. QED BY <1>1, HabInvariance, PTL

\* A thread not told to stop runs with what was committed last (configure_gps,
\* commit, gps_thread_death).
THEOREM ThreadFollowsSettings == Spec => []FollowsSettings
<1>1. IInv => FollowsSettings
  BY DEF IInv, Good, Follows, FollowsSettings
<1>. QED BY <1>1, HabInvariance, PTL

\* The uploader is deleted after the GPS thread (dl_fldigi::cleanup).
THEOREM UploaderStays == Spec => []UploaderOutlivesThread
<1>1. IInv => UploaderOutlivesThread
  BY DEF IInv, Good, Outlived, UploaderOutlivesThread
<1>. QED BY <1>1, HabInvariance, PTL
=============================================================================
