------------------------- MODULE TorrentControlProofs -------------------------
(***************************************************************************)
(* What TorrentControl.tla promises of a fix and of an optimization that   *)
(* met nobody else: the service it found running runs again, its settings  *)
(* are in force and the users' are kept, and "verified" is true; for any   *)
(* number of threads, requests, troubles and settings of users.            *)
(*                                                                         *)
(* A request that is alone has the service, the file and the figures to    *)
(* itself, but for the client and its users.  SoundInv says, for each      *)
(* point of its way, what it may then rely on; each action of the request  *)
(* takes it from one point to the next (GoesOn), the client and its users  *)
(* go on beside it (GoesBeside), and whatever else touches the service     *)
(* ends its being alone (Disturbs).                                        *)
(***************************************************************************)
EXTENDS TorrentControl, TLAPS

\* What the variables hold.  A request has read the file when it writes, and
\* only a container is given its settings through the WebUI.
Repairs == {"fix", "optimize"}
Daemon == [run : BOOLEAN, up : BOOLEAN, ending : BOOLEAN, dirty : BOOLEAN,
           live : Settings \cup {None}]
Figures == [there : BOOLEAN, ok : BOOLEAN]
Closing == {"reset", "snapshot", "fetch", "store", "answer", "status", "done"}
Points == {"idle", "ensure", "meta", "stop", "read", "write", "replace", "start", "except",
           "prefs", "nq_start", "nq_write", "nq_restart", "quit", "control"} \cup Closing
Record ==
    [op : Ops \cup {"none"}, pc : Points, then : {"done", "control", "answer"},
     found : BOOLEAN, stopped : BOOLEAN, read : Settings \cup {None}, seen : BOOLEAN,
     verify : BOOLEAN, ok : BOOLEAN, came : BOOLEAN, alone : BOOLEAN, intact : BOOLEAN]
Frame(cl) ==
    {f \in Record : /\ f.pc = "write" => f.read \in Settings
                    /\ f.pc = "prefs" => cl = "docker"}

\* Everything has its kind; a client that is not running has nothing unsaved,
\* and rtorrent, which never writes its file, never has.
TypeInv ==
    /\ client \in {"qbittorrent", "docker", "transmission", "rtorrent"}
    /\ conf \in Settings /\ latest \in 0..MaxOwn
    /\ daemon \in Daemon
    /\ daemon.run => daemon.live \in Settings
    /\ daemon.up \/ daemon.dirty => daemon.run
    /\ client = "rtorrent" => ~daemon.dirty
    /\ cache \in Figures
    /\ frame \in [Workers -> Frame(client)]
    /\ tmp \in Settings \cup {None}

\* Nobody else is at work beside a request that is alone.
AloneInv ==
    \A w \in Workers : frame[w].alone =>
      \A x \in Workers \ {w} : ~Busy(x) /\ ~frame[x].alone

\* The client answers; the settings in force; the users' are kept, in the
\* client and in the file it would start with; what a repair is to achieve.
Serving(d) == d.up /\ d.live.monitor
Effective(d, c) == IF d.run THEN d.live ELSE c
Kept(d, c, l) == Effective(d, c).own = l /\ (d.dirty \/ c.own = l)
Wanted(cl, op, s) ==
    /\ cl = "qbittorrent" => s.monitor
    /\ cl = "docker" /\ op = "fix" => s.moves
    /\ cl = "rtorrent" \/ op = "optimize" => s.limits

\* Path: the points a repair of each kind of client passes, and where asking
\* for figures leads it.
Path(cl, f) ==
    /\ f.pc \in {"meta", "stop", "read", "write", "replace", "start", "except"} => cl = "qbittorrent"
    /\ f.pc \in {"nq_start", "nq_write", "nq_restart"} => cl \notin {"qbittorrent", "docker"}
    /\ f.pc \in {"reset", "answer"} => cl \in {"qbittorrent", "docker"}
    /\ f.pc \notin {"quit", "control"}
    /\ f.pc = "status" => f.then = "done"
    /\ f.pc \in {"snapshot", "fetch", "store"} =>
         f.then = "done" \/ (f.then = "answer" /\ cl \in {"qbittorrent", "docker"})

\* Owed: a service that was found running runs, or the request is at a point
\* from which it will still start it (app.py 10139-10141, 10503-10505), but for
\* a stop that failed and yet stopped it.
Owed(d, f) ==
    /\ f.pc \in {"ensure", "meta", "prefs", "nq_start", "nq_write", "nq_restart"} => ~f.found
    /\ f.found =>
         /\ f.pc \in {"stop"} \cup (Closing \ {"done"}) => d.run
         /\ f.pc \in {"read", "write", "replace", "start"} => f.stopped
         /\ f.pc = "except" => f.stopped \/ d.run \/ ~f.came
         /\ f.pc = "done" /\ f.came => d.run

\* Seen: "verified" is true, and so is what was seen after the figures were
\* forgotten; until they are fetched again there are none (app.py 10120-10121).
Seen(d, k, f) ==
    /\ f.verify => f.pc \in Closing \ {"reset"} /\ f.then = "done" /\ Serving(d)
    /\ f.pc \notin Closing \/ f.pc = "reset" => ~f.seen
    /\ f.pc \in {"snapshot", "fetch"} /\ f.then = "answer" => ~k.there
    /\ (f.pc = "answer" \/ (f.pc = "store" /\ f.then = "answer")) /\ f.seen => Serving(d)

\* Way: the wanted settings are on their way, from the file read to the file
\* written to the file put in place to the client started with it.
Way(cl, d, c, t, f) ==
    /\ f.ok => f.pc \in Closing \ {"reset", "answer"} /\ f.then = "done"
    /\ f.pc \in {"read", "write", "replace", "start"} => ~d.run
    /\ f.pc = "write" => f.read = c
    /\ f.pc = "replace" => t = Desired(f.op, c)
    /\ f.pc = "nq_restart" /\ cl = "rtorrent" => c.limits
    /\ \/ f.pc \in {"start", "reset", "answer"}
       \/ f.pc \in {"snapshot", "fetch", "store"} /\ f.then = "answer"
       \/ f.ok /\ (cl = "rtorrent" => f.came)
       => cl = "transmission" \/ Wanted(cl, f.op, Effective(d, c))

\* What a repair relies on at each point, as long as it is alone.
Sound(cl, d, c, t, k, l, f) ==
    /\ Path(cl, f) /\ Owed(d, f) /\ Seen(d, k, f) /\ Way(cl, d, c, t, f)
    /\ f.intact /\ cl # "transmission" /\ (f.pc = "done" => f.ok) => Kept(d, c, l)
SoundInv ==
    \A w \in Workers : frame[w].alone /\ frame[w].op \in Repairs =>
      Sound(client, daemon, conf, tmp, cache, latest, frame[w])

\* The inductive invariant.
Inv == TypeInv /\ AloneInv /\ SoundInv

-----------------------------------------------------------------------------
(* The client.                                                               *)

\* What its variables hold, one by one.
DaemonOK(cl, d, c) ==
    /\ c \in Settings /\ d \in Daemon
    /\ d.run => d.live \in Settings
    /\ d.up \/ d.dirty => d.run
    /\ cl = "rtorrent" => ~d.dirty

\* A client that is down, and one that was just started.
LEMMA DownStarted ==
  /\ Down \in Daemon /\ ~Down.run /\ ~Down.up /\ ~Down.dirty
  /\ \A s \in Settings : /\ Started(s) \in Daemon /\ Started(s).run /\ ~Started(s).up
                         /\ ~Started(s).dirty /\ Started(s).live = s
BY DEF Down, Started, Daemon

\* What is in an empty file.
LEMMA BlankSettings == Blank \in Settings
BY TorrentAssumption DEF Blank, Settings

\* A client that ends loses nothing of what the users set, unless it is one that
\* was left out; rtorrent leaves its file alone.
LEMMA AtExitFacts ==
  ASSUME DaemonOK(client, daemon, conf), daemon.run, NEW c \in AtExit
  PROVE  /\ c \in Settings
         /\ client = "rtorrent" => c = conf
         /\ client # "transmission" => \A l : Kept(daemon, conf, l) => c.own = l
BY DEF AtExit, DaemonOK, Kept, Effective

\* The same of the whole end: afterwards it is down.
LEMMA EndsFacts ==
  ASSUME DaemonOK(client, daemon, conf), Ends
  PROVE  /\ DaemonOK(client, daemon', conf') /\ ~daemon'.run
         /\ client = "rtorrent" => conf' = conf
         /\ client # "transmission" => \A l : Kept(daemon, conf, l) => Kept(daemon', conf', l)
<1>1. CASE daemon.run
  <2>1. daemon' = Down /\ conf' \in AtExit
    BY <1>1 DEF Ends
  <2>2. /\ conf' \in Settings
        /\ client = "rtorrent" => conf' = conf
        /\ client # "transmission" => \A l : Kept(daemon, conf, l) => conf'.own = l
    BY <1>1, <2>1, AtExitFacts
  <2> QED
    BY <2>1, <2>2, DownStarted DEF DaemonOK, Kept, Effective
<1>2. CASE ~daemon.run
  BY <1>2 DEF Ends, DaemonOK, Kept, Effective
<1> QED
  BY <1>1, <1>2

\* What start, stop and restart do to the service and its file (_service_action),
\* whether or not they say so.
LEMMA EffectFacts ==
  ASSUME DaemonOK(client, daemon, conf), NEW action \in {"start", "stop", "restart"},
         NEW ok \in BOOLEAN, Effect(action, ok)
  PROVE  /\ DaemonOK(client, daemon', conf')
         /\ client # "transmission" => \A l : Kept(daemon, conf, l) => Kept(daemon', conf', l)
         /\ action = "start" => /\ conf' = conf
                                /\ daemon' = IF daemon'.run /\ ~daemon.run THEN Started(conf)
                                             ELSE daemon
                                /\ ok => daemon'.run
         /\ action = "stop" => /\ ok => ~daemon'.run
                               /\ daemon'.run => daemon' = daemon /\ conf' = conf
         /\ action = "restart" /\ client = "rtorrent" => conf' = conf
         /\ action = "restart" /\ ok => daemon'.run /\ daemon'.live = conf'
<1>1. CASE action = "start" /\ Starts
  <2>1. daemon' = (IF daemon.run THEN daemon ELSE Started(conf)) /\ conf' = conf
    BY <1>1 DEF Starts
  <2> QED
    BY <1>1, <2>1, DownStarted DEF DaemonOK, Kept, Effective
<1>2. CASE action = "restart" /\ Restarts
  <2>1. (conf' \in IF daemon.run THEN AtExit ELSE {conf}) /\ daemon' = Started(conf')
    BY <1>2 DEF Restarts
  <2>2. /\ conf' \in Settings
        /\ client = "rtorrent" => conf' = conf
        /\ client # "transmission" => \A l : Kept(daemon, conf, l) => conf'.own = l
    <3>1. CASE daemon.run
      BY <2>1, <3>1, AtExitFacts
    <3>2. CASE ~daemon.run
      BY <2>1, <3>2 DEF DaemonOK, Kept, Effective
    <3> QED
      BY <3>1, <3>2
  <2> QED
    BY <1>2, <2>1, <2>2, DownStarted DEF DaemonOK, Kept, Effective
<1>3. CASE action \in {"stop", "restart"} /\ Ends /\ (action = "restart" => ~ok)
  BY <1>3, EndsFacts
<1>4. CASE ~ok /\ UNCHANGED <<daemon, conf>>
  BY <1>4 DEF DaemonOK, Kept, Effective
<1> QED
  BY <1>1, <1>2, <1>3, <1>4 DEF Effect

-----------------------------------------------------------------------------
(* Three ways for the invariant to go on.                                    *)

\* The types, in the form the steps use.
LEMMA TypeParts ==
  ASSUME Inv
  PROVE  DaemonOK(client, daemon, conf) /\ cache \in Figures /\ frame \in [Workers -> Frame(client)]
         /\ latest \in 0..MaxOwn /\ tmp \in Settings \cup {None}
BY DEF Inv, TypeInv, DaemonOK

\* A request that is alone meets nobody; one that is not has nobody alone beside it.
LEMMA GoesOn ==
  ASSUME Inv, NEW w \in Workers, Busy(w),
         frame' \in [Workers -> Frame(client)], \A v \in Workers \ {w} : frame'[v] = frame[v],
         frame'[w].alone = frame[w].alone, frame'[w].op = frame[w].op,
         UNCHANGED <<client, latest>>, tmp' \in Settings \cup {None}, cache' \in Figures,
         DaemonOK(client, daemon', conf'),
         frame[w].op \in Repairs /\ Sound(client, daemon, conf, tmp, cache, latest, frame[w])
           => Sound(client, daemon', conf', tmp', cache', latest', frame'[w])
  PROVE  Inv'
<1>1. TypeInv'
  BY DEF Inv, TypeInv, DaemonOK
<1>2. \A v \in Workers \ {w} : ~frame[v].alone
  BY DEF Inv, AloneInv
<1>3. AloneInv'
  <2> SUFFICES ASSUME NEW v \in Workers, frame'[v].alone, NEW x \in Workers \ {v}
               PROVE  ~Busy(x)' /\ ~frame'[x].alone
    BY DEF AloneInv
  <2>1. v = w /\ x # w
    BY <1>2
  <2>2. ~Busy(x) /\ ~frame[x].alone
    BY <2>1 DEF Inv, AloneInv
  <2> QED
    BY <2>1, <2>2 DEF Busy
<1>4. SoundInv'
  <2> SUFFICES ASSUME NEW v \in Workers, frame'[v].alone, frame'[v].op \in Repairs
               PROVE  Sound(client', daemon', conf', tmp', cache', latest', frame'[v])
    BY DEF SoundInv
  <2>1. v = w
    BY <1>2
  <2> QED
    BY <2>1 DEF Inv, SoundInv
<1> QED
  BY <1>1, <1>3, <1>4 DEF Inv

\* Requests that are no longer alone rely on nothing.
LEMMA Disturbs ==
  ASSUME Inv, frame' \in [Workers -> Frame(client)], \A w \in Workers : ~frame'[w].alone,
         UNCHANGED <<client, latest>>, tmp' \in Settings \cup {None}, cache' \in Figures,
         DaemonOK(client, daemon', conf')
  PROVE  Inv'
<1>1. TypeInv'
  BY DEF Inv, TypeInv, DaemonOK
<1>2. AloneInv' /\ SoundInv'
  BY DEF AloneInv, SoundInv
<1> QED
  BY <1>1, <1>2 DEF Inv

\* Being disturbed changes nothing but the being alone.
LEMMA DisturbedFrames ==
  ASSUME Inv
  PROVE  /\ Disturbed \in [Workers -> Frame(client)]
         /\ \A w \in Workers : ~Disturbed[w].alone /\ Disturbed[w].pc = frame[w].pc
<1>1. \A w \in Workers : frame[w] \in Frame(client)
  BY TypeParts
<1>2. \A f \in Frame(client) : /\ [f EXCEPT !.alone = FALSE] \in Frame(client)
                       /\ ~[f EXCEPT !.alone = FALSE].alone
                       /\ [f EXCEPT !.alone = FALSE].pc = f.pc
  BY DEF Frame, Record
<1> QED
  BY <1>1, <1>2 DEF Disturbed

\* The client and its users go on beside the requests.
LEMMA GoesBeside ==
  ASSUME Inv, UNCHANGED <<client, tmp, frame>>, latest' \in 0..MaxOwn, cache' \in Figures,
         DaemonOK(client, daemon', conf'),
         \A f \in Frame(client) : Sound(client, daemon, conf, tmp, cache, latest, f)
                            => Sound(client, daemon', conf', tmp, cache', latest', f)
  PROVE  Inv'
<1>1. TypeInv'
  BY DEF Inv, TypeInv, DaemonOK
<1>2. AloneInv'
  BY DEF Inv, AloneInv, Busy
<1>3. SoundInv'
  BY TypeParts DEF Inv, SoundInv
<1> QED
  BY <1>1, <1>2, <1>3 DEF Inv

-----------------------------------------------------------------------------
(* The client and its users go on, and others come.                          *)

\* The client begins to answer.
LEMMA ServeStep ==
  ASSUME Inv, Serve
  PROVE  Inv'
<1>1. /\ DaemonOK(client, daemon', conf') /\ conf' = conf
      /\ daemon'.run = daemon.run /\ daemon'.live = daemon.live /\ daemon'.dirty = daemon.dirty
      /\ daemon'.up
  BY TypeParts DEF Serve, DaemonOK, Daemon
<1>2. ASSUME NEW f \in Frame(client), Sound(client, daemon, conf, tmp, cache, latest, f)
      PROVE  Sound(client, daemon', conf', tmp, cache', latest', f)
  BY <1>1, <1>2 DEF Serve, Sound, Owed, Seen, Way, Kept, Effective, Serving
<1> QED
  BY <1>1, <1>2, TypeParts, GoesBeside DEF Serve

\* The client saves its settings.
LEMMA SavesStep ==
  ASSUME Inv, Saves
  PROVE  Inv'
<1>1. /\ DaemonOK(client, daemon', conf') /\ conf' = daemon.live /\ daemon.run
      /\ daemon'.run = daemon.run /\ daemon'.live = daemon.live /\ daemon'.up = daemon.up
      /\ ~daemon'.dirty /\ daemon.dirty /\ client # "rtorrent"
  BY TypeParts DEF Saves, DaemonOK, Daemon
<1>2. ASSUME NEW f \in Frame(client), Sound(client, daemon, conf, tmp, cache, latest, f)
      PROVE  Sound(client, daemon', conf', tmp, cache', latest', f)
  BY <1>1, <1>2 DEF Saves, Sound, Owed, Seen, Way, Kept, Effective, Serving
<1> QED
  BY <1>1, <1>2, TypeParts, GoesBeside DEF Saves

\* A user changes a setting in the client.
LEMMA UserSetsStep ==
  ASSUME Inv, UserSets
  PROVE  Inv'
<1>1. latest' = latest + 1 /\ latest' \in 0..MaxOwn
  BY TorrentAssumption, TypeParts DEF UserSets
<1>2. daemon.run /\ daemon.live \in Settings /\ client # "rtorrent" /\ daemon \in Daemon
  BY TypeParts DEF UserSets, DaemonOK
<1>3. \A s \in Settings : \A n \in 0..MaxOwn :
        /\ [s EXCEPT !.own = n] \in Settings
        /\ [s EXCEPT !.own = n].monitor = s.monitor /\ [s EXCEPT !.own = n].limits = s.limits
        /\ [s EXCEPT !.own = n].moves = s.moves /\ [s EXCEPT !.own = n].own = n
  BY DEF Settings
<1>4. daemon' = [daemon EXCEPT !.live = [daemon.live EXCEPT !.own = latest'], !.dirty = TRUE]
  BY <1>1 DEF UserSets
<1>5. /\ daemon' \in Daemon /\ daemon'.live = [daemon.live EXCEPT !.own = latest'] /\ daemon'.dirty
      /\ daemon'.run = daemon.run /\ daemon'.up = daemon.up
  BY <1>1, <1>2, <1>3, <1>4 DEF Daemon
<1> DEFINE s == [daemon.live EXCEPT !.own = latest']
<1>6. /\ s \in Settings /\ s.monitor = daemon.live.monitor /\ s.limits = daemon.live.limits
      /\ s.moves = daemon.live.moves /\ s.own = latest'
  BY ONLY <1>1, <1>2, <1>3
<1>7. daemon'.live = s
  BY <1>5
<1> HIDE DEF s
<1>8. /\ DaemonOK(client, daemon', conf') /\ conf' = conf
      /\ daemon'.live.monitor = daemon.live.monitor /\ daemon'.live.limits = daemon.live.limits
      /\ daemon'.live.moves = daemon.live.moves /\ daemon'.live.own = latest'
  BY <1>2, <1>5, <1>6, <1>7, TypeParts DEF UserSets, DaemonOK
<1>9. ASSUME NEW f \in Frame(client), Sound(client, daemon, conf, tmp, cache, latest, f)
      PROVE  Sound(client, daemon', conf', tmp, cache', latest', f)
  BY <1>2, <1>5, <1>8, <1>9 DEF UserSets, Sound, Owed, Seen, Way, Kept, Effective, Serving, Wanted
<1> QED
  BY <1>1, <1>8, <1>9, TypeParts, GoesBeside DEF UserSets

\* The figures get too old.
LEMMA FourSecondsStep ==
  ASSUME Inv, FourSeconds
  PROVE  Inv'
<1>1. cache' \in Figures /\ ~cache'.there
  BY DEF FourSeconds, NoFigures, Figures
<1>2. ASSUME NEW f \in Frame(client), Sound(client, daemon, conf, tmp, cache, latest, f)
      PROVE  Sound(client, daemon', conf', tmp, cache', latest', f)
  BY <1>1, <1>2 DEF FourSeconds, Sound, Seen
<1> QED
  BY <1>1, <1>2, TypeParts, GoesBeside DEF FourSeconds

\* The client that was told to quit ends: nobody is alone.
LEMMA QuitsStep ==
  ASSUME Inv, QuitsAtLast
  PROVE  Inv'
BY TypeParts, EndsFacts, DisturbedFrames, Disturbs DEF QuitsAtLast

\* A user starts or stops the service: nobody is alone.
LEMMA UserActsStep ==
  ASSUME Inv, UserActs
  PROVE  Inv'
<1>1. PICK action \in {"start", "stop"} : Effect(action, TRUE)
  BY DEF UserActs
<1>2. DaemonOK(client, daemon', conf')
  BY <1>1, TypeParts, EffectFacts
<1> QED
  BY <1>2, TypeParts, DisturbedFrames, Disturbs DEF UserActs

\* AfterClaw restarts: there are no requests.
LEMMA DiesStep ==
  ASSUME Inv, AfterClawDies
  PROVE  Inv'
<1>1. Idle \in Frame(client) /\ ~Idle.alone
  BY DEF Idle, Frame, Record, Ops, Points
<1>2. frame' \in [Workers -> Frame(client)] /\ \A w \in Workers : ~frame'[w].alone
  BY <1>1 DEF AfterClawDies
<1>3. cache' \in Figures
  BY DEF AfterClawDies, NoFigures, Figures
<1>5. conf' \in {conf, Blank} /\ tmp' \in {tmp, Blank} /\ UNCHANGED <<client, daemon, latest>>
  BY DEF AfterClawDies, Unwritten
<1>6. DaemonOK(client, daemon', conf') /\ tmp' \in Settings \cup {None}
  BY <1>5, BlankSettings, TypeParts DEF DaemonOK
<1> QED
  BY <1>2, <1>3, <1>5, <1>6, Disturbs

\* A request comes: those under way are not alone, and it is if there are none.
LEMMA BeginStep ==
  ASSUME Inv, NEW w \in Workers, Begin(w)
  PROVE  Inv'
<1>1. PICK op \in Ops :
        frame' = [Disturbed EXCEPT ![w] =
                     [Idle EXCEPT !.op = op, !.pc = Enter(op),
                        !.then = IF op = "status" THEN "done" ELSE "control",
                        !.alone = \A x \in Workers \ {w} : ~Busy(x),
                        !.intact = Intact]]
  BY DEF Begin
<1> DEFINE alone == \A x \in Workers \ {w} : ~Busy(x)
           g == [Idle EXCEPT !.op = op, !.pc = Enter(op),
                        !.then = IF op = "status" THEN "done" ELSE "control",
                        !.alone = alone, !.intact = Intact]
<1>2. client \in {"qbittorrent", "docker", "transmission", "rtorrent"}
  BY DEF Inv, TypeInv
<1>3. Enter(op) \in {"ensure", "quit", "status", "meta", "prefs", "nq_start"}
  BY DEF Enter
<1>4. alone \in BOOLEAN /\ Intact \in BOOLEAN
  BY DEF Intact
<1>5. /\ g \in Frame(client) /\ g.op = op /\ g.pc = Enter(op) /\ g.alone = alone /\ g.intact = Intact
      /\ g.then = (IF op = "status" THEN "done" ELSE "control")
      /\ ~g.found /\ ~g.stopped /\ ~g.seen /\ ~g.verify /\ ~g.ok
  <2> DEFINE p == Enter(op)
             t == IF op = "status" THEN "done" ELSE "control"
  <2>1. /\ p \in Points /\ t \in {"done", "control"}
        /\ p # "write" /\ (p = "prefs" => client = "docker")
    BY <1>3 DEF Points, Closing, Enter
  <2>2. g = [Idle EXCEPT !.op = op, !.pc = p, !.then = t, !.alone = alone, !.intact = Intact]
    OBVIOUS
  <2>3. p = Enter(op) /\ t = IF op = "status" THEN "done" ELSE "control"
    OBVIOUS
  <2> HIDE DEF alone, g, p, t
  <2>4. /\ g \in Frame(client) /\ g.op = op /\ g.pc = p /\ g.then = t /\ g.alone = alone
        /\ g.intact = Intact
        /\ ~g.found /\ ~g.stopped /\ ~g.seen /\ ~g.verify /\ ~g.ok
    BY ONLY op \in Ops, <1>4, <2>1, <2>2 DEF Idle, Frame, Record
  <2> QED
    BY <2>3, <2>4
<1> HIDE DEF g
<1>6. /\ frame' \in [Workers -> Frame(client)] /\ frame'[w] = g
      /\ \A v \in Workers \ {w} : ~frame'[v].alone /\ frame'[v].pc = frame[v].pc
  BY <1>1, <1>5, DisturbedFrames DEF g
<1>7. TypeInv'
  BY <1>6 DEF Begin, Inv, TypeInv
<1>8. AloneInv'
  BY <1>5, <1>6 DEF AloneInv, Busy
<1>9. SoundInv'
  <2> SUFFICES ASSUME NEW v \in Workers, frame'[v].alone, frame'[v].op \in Repairs
               PROVE  Sound(client', daemon', conf', tmp', cache', latest', frame'[v])
    BY DEF SoundInv
  <2>1. v = w /\ frame'[v] = g
    BY <1>6
  <2>2. /\ op \in Repairs /\ g.pc = Enter(op) /\ Enter(op) \in {"ensure", "meta", "prefs", "nq_start"}
        /\ Enter(op) = "meta" => client = "qbittorrent"
        /\ Enter(op) = "prefs" => client = "docker"
        /\ Enter(op) = "nq_start" => client \notin {"qbittorrent", "docker"}
    BY <1>5, <2>1 DEF Repairs, Enter
  <2>3. Path(client, g) /\ Owed(daemon, g) /\ Seen(daemon, cache, g) /\ Way(client, daemon, conf, tmp, g)
    BY <1>5, <2>2 DEF Path, Owed, Seen, Way, Closing
  <2>4. g.intact => Kept(daemon, conf, latest)
    BY <1>5 DEF Intact, InForce, Kept, Effective
  <2> QED
    BY <2>1, <2>3, <2>4 DEF Sound, Begin
<1> QED
  BY <1>7, <1>8, <1>9 DEF Inv

-----------------------------------------------------------------------------
(* A request goes from one point to the next.                                *)

\* A request that only goes to its next point.
LEMMA GotoFacts ==
  ASSUME Inv, NEW w \in Workers, NEW p \in Points, p # "write", p = "prefs" => client = "docker",
         frame' = [frame EXCEPT ![w].pc = p]
  PROVE  /\ frame' \in [Workers -> Frame(client)] /\ \A v \in Workers \ {w} : frame'[v] = frame[v]
         /\ frame'[w] = [frame[w] EXCEPT !.pc = p]
<1>1. frame \in [Workers -> Frame(client)] /\ frame[w] \in Frame(client)
  BY TypeParts
<1>2. [frame[w] EXCEPT !.pc = p] \in Frame(client)
  BY <1>1 DEF Frame, Record
<1> QED
  BY <1>1, <1>2

\* control_status_payload: a client that runs is asked for figures.
LEMMA StatusStep ==
  ASSUME Inv, NEW w \in Workers, control_status_payload(w)
  PROVE  Inv'
<1>1. /\ frame \in [Workers -> Frame(client)] /\ DaemonOK(client, daemon, conf) /\ cache \in Figures
      /\ frame[w] \in Frame(client) /\ tmp \in Settings \cup {None}
  BY TypeParts
<1> DEFINE p == IF Active /\ QBittorrent THEN "snapshot" ELSE frame[w].then
<1>2. p \in Points /\ p \notin {"write", "prefs"}
  BY <1>1 DEF Frame, Record, Points, Closing
<1>3. frame' = [frame EXCEPT ![w].pc = p]
  BY DEF control_status_payload, Goto
<1>4. p = (IF Active /\ QBittorrent THEN "snapshot" ELSE frame[w].then)
  OBVIOUS
<1> HIDE DEF p
<1>5. /\ frame' \in [Workers -> Frame(client)] /\ \A v \in Workers \ {w} : frame'[v] = frame[v]
      /\ frame'[w] = [frame[w] EXCEPT !.pc = p]
  BY <1>2, <1>3, GotoFacts
<1>fields. /\ frame'[w].op = frame[w].op /\ frame'[w].pc = p /\ frame'[w].then = frame[w].then
      /\ frame'[w].found = frame[w].found /\ frame'[w].stopped = frame[w].stopped
      /\ frame'[w].read = frame[w].read /\ frame'[w].seen = frame[w].seen
      /\ frame'[w].verify = frame[w].verify /\ frame'[w].ok = frame[w].ok
      /\ frame'[w].came = frame[w].came /\ frame'[w].alone = frame[w].alone
      /\ frame'[w].intact = frame[w].intact
  BY <1>1, <1>5 DEF Frame, Record
<1>6. Busy(w) /\ frame[w].pc = "status"
  BY DEF control_status_payload, Busy
<1>7. ASSUME frame[w].op \in Repairs, Sound(client, daemon, conf, tmp, cache, latest, frame[w])
      PROVE  Sound(client, daemon', conf', tmp', cache', latest', frame'[w])
  <2>1. frame[w].then = "done" /\ (p = "snapshot" => daemon.run) /\ p \in {"snapshot", "done"}
    BY <1>4, <1>6, <1>7 DEF Sound, Path, Closing, Active, systemd_active, container_active
  <2>2. UNCHANGED <<client, daemon, conf, tmp, cache, latest>>
    BY DEF control_status_payload
  <2> QED
    BY <1>1, <1>6, <1>7, <2>1, <2>2, <1>fields DEF Sound, Path, Owed, Seen, Way, Closing
<1> QED
  BY <1>1, <1>5, <1>6, <1>7, <1>fields, GoesOn DEF control_status_payload

\* Figures younger than four seconds end the asking; a repair that just forgot
\* them finds none.
LEMMA CachedStep ==
  ASSUME Inv, NEW w \in Workers, SnapshotCached(w)
  PROVE  Inv'
<1>1. /\ frame \in [Workers -> Frame(client)] /\ DaemonOK(client, daemon, conf) /\ cache \in Figures
      /\ frame[w] \in Frame(client) /\ tmp \in Settings \cup {None}
  BY TypeParts
<1>2. Busy(w) /\ frame[w].pc = "snapshot"
  BY DEF SnapshotCached, Busy
<1>3. UNCHANGED <<client, daemon, conf, tmp, cache, latest>>
  BY DEF SnapshotCached
<1>4. CASE cache.there
  <2> DEFINE g == [frame[w] EXCEPT !.seen = cache.ok, !.pc = frame[w].then]
  <2>1. g \in Frame(client)
    BY <1>1 DEF Frame, Record, Figures, Points, Closing
  <2>2. frame' = [frame EXCEPT ![w] = g]
    BY <1>1, <1>4 DEF SnapshotCached
  <2>3. /\ frame' \in [Workers -> Frame(client)] /\ \A v \in Workers \ {w} : frame'[v] = frame[v]
        /\ frame'[w] = [frame[w] EXCEPT !.seen = cache.ok, !.pc = frame[w].then]
    BY ONLY w \in Workers, <1>1, <2>1, <2>2
  <2>fields. /\ frame'[w].op = frame[w].op /\ frame'[w].pc = frame[w].then
        /\ frame'[w].then = frame[w].then /\ frame'[w].found = frame[w].found
        /\ frame'[w].stopped = frame[w].stopped /\ frame'[w].read = frame[w].read
        /\ frame'[w].seen = cache.ok /\ frame'[w].verify = frame[w].verify
        /\ frame'[w].ok = frame[w].ok /\ frame'[w].came = frame[w].came
        /\ frame'[w].alone = frame[w].alone /\ frame'[w].intact = frame[w].intact
    BY <1>1, <2>3 DEF Frame, Record
  <2>4. ASSUME frame[w].op \in Repairs, Sound(client, daemon, conf, tmp, cache, latest, frame[w])
        PROVE  Sound(client, daemon', conf', tmp', cache', latest', frame'[w])
    <3>1. frame[w].then = "done"
      BY <1>2, <1>4, <2>4 DEF Sound, Path, Seen, Closing
    <3> QED
      BY <1>1, <1>2, <1>3, <2>4, <3>1, <2>fields DEF Sound, Path, Owed, Seen, Way, Closing
  <2> QED
    BY <1>1, <1>2, <1>3, <2>3, <2>4, <2>fields, GoesOn
<1>5. CASE ~cache.there
  <2>1. frame' = [frame EXCEPT ![w].pc = "fetch"] /\ "fetch" \in Points
    BY <1>5 DEF SnapshotCached, Points, Closing
  <2>2. /\ frame' \in [Workers -> Frame(client)] /\ \A v \in Workers \ {w} : frame'[v] = frame[v]
        /\ frame'[w] = [frame[w] EXCEPT !.pc = "fetch"]
    BY <2>1, GotoFacts
  <2>fields. /\ frame'[w].op = frame[w].op /\ frame'[w].pc = "fetch" /\ frame'[w].then = frame[w].then
        /\ frame'[w].found = frame[w].found /\ frame'[w].stopped = frame[w].stopped
        /\ frame'[w].read = frame[w].read /\ frame'[w].seen = frame[w].seen
        /\ frame'[w].verify = frame[w].verify /\ frame'[w].ok = frame[w].ok
        /\ frame'[w].came = frame[w].came /\ frame'[w].alone = frame[w].alone
        /\ frame'[w].intact = frame[w].intact
    BY <1>1, <2>2 DEF Frame, Record
  <2>3. ASSUME frame[w].op \in Repairs, Sound(client, daemon, conf, tmp, cache, latest, frame[w])
        PROVE  Sound(client, daemon', conf', tmp', cache', latest', frame'[w])
    BY <1>1, <1>2, <1>3, <2>3, <2>fields DEF Sound, Path, Owed, Seen, Way, Closing
  <2> QED
    BY <1>1, <1>2, <1>3, <2>2, <2>3, <2>fields, GoesOn
<1> QED
  BY <1>4, <1>5

\* fetch_maindata: what is seen is whether the client answers now.
LEMMA FetchStep ==
  ASSUME Inv, NEW w \in Workers, fetch_maindata(w)
  PROVE  Inv'
<1>1. /\ frame \in [Workers -> Frame(client)] /\ DaemonOK(client, daemon, conf) /\ cache \in Figures
      /\ frame[w] \in Frame(client) /\ tmp \in Settings \cup {None}
  BY TypeParts
<1>2. Busy(w) /\ frame[w].pc = "fetch"
  BY DEF fetch_maindata, Busy
<1>3. UNCHANGED <<client, daemon, conf, tmp, cache, latest>>
  BY DEF fetch_maindata
<1>9. PICK heard \in BOOLEAN :
        frame' = [frame EXCEPT ![w].seen = Reachable /\ heard, ![w].pc = "store"]
  BY DEF fetch_maindata
<1> DEFINE answers == Reachable /\ heard
           g == [frame[w] EXCEPT !.seen = answers, !.pc = "store"]
<1>4. answers \in BOOLEAN /\ (answers => Serving(daemon))
  <2>1. daemon.up => daemon.live \in Settings
    BY <1>1 DEF DaemonOK
  <2> QED
    BY <1>1, <2>1 DEF Reachable, candidate_base_urls_serve, Serving, DaemonOK, Daemon, Settings
<1>5. frame' = [frame EXCEPT ![w] = g]
  BY <1>1, <1>9
<1> HIDE DEF answers
<1>6. g \in Frame(client)
  <2>1. "store" \in Points \ {"write", "prefs"}
    BY <1>1, <1>4 DEF Points, Closing
  <2> QED
    BY <1>1, <1>4, <2>1 DEF Frame, Record
<1>7. /\ frame' \in [Workers -> Frame(client)] /\ \A v \in Workers \ {w} : frame'[v] = frame[v]
      /\ frame'[w] = [frame[w] EXCEPT !.seen = answers, !.pc = "store"]
  BY ONLY w \in Workers, <1>1, <1>5, <1>6
<1>fields. /\ frame'[w].op = frame[w].op /\ frame'[w].pc = "store" /\ frame'[w].then = frame[w].then
      /\ frame'[w].found = frame[w].found /\ frame'[w].stopped = frame[w].stopped
      /\ frame'[w].read = frame[w].read /\ frame'[w].seen = answers
      /\ frame'[w].verify = frame[w].verify /\ frame'[w].ok = frame[w].ok
      /\ frame'[w].came = frame[w].came /\ frame'[w].alone = frame[w].alone
      /\ frame'[w].intact = frame[w].intact
  BY <1>1, <1>7 DEF Frame, Record
<1>8. ASSUME frame[w].op \in Repairs, Sound(client, daemon, conf, tmp, cache, latest, frame[w])
      PROVE  Sound(client, daemon', conf', tmp', cache', latest', frame'[w])
  BY <1>1, <1>2, <1>3, <1>4, <1>8, <1>fields DEF Sound, Path, Owed, Seen, Way, Closing
<1> QED
  BY <1>1, <1>2, <1>3, <1>7, <1>8, <1>fields, GoesOn

\* The figures are kept.
LEMMA StoreStep ==
  ASSUME Inv, NEW w \in Workers, SnapshotStore(w)
  PROVE  Inv'
<1>1. /\ frame \in [Workers -> Frame(client)] /\ DaemonOK(client, daemon, conf) /\ cache \in Figures
      /\ frame[w] \in Frame(client) /\ tmp \in Settings \cup {None}
  BY TypeParts
<1>2. Busy(w) /\ frame[w].pc = "store"
  BY DEF SnapshotStore, Busy
<1>3. UNCHANGED <<client, daemon, conf, tmp, latest>> /\ cache' \in Figures
  BY <1>1 DEF SnapshotStore, Figures, Frame, Record
<1> DEFINE p == frame[w].then
<1>4. p \in Points /\ p \notin {"write", "prefs"}
  BY <1>1 DEF Frame, Record, Points, Closing
<1>5. /\ frame' \in [Workers -> Frame(client)] /\ \A v \in Workers \ {w} : frame'[v] = frame[v]
      /\ frame'[w] = [frame[w] EXCEPT !.pc = p]
  BY <1>4, GotoFacts DEF SnapshotStore, Goto
<1>fields. /\ frame'[w].op = frame[w].op /\ frame'[w].pc = p /\ frame'[w].then = frame[w].then
      /\ frame'[w].found = frame[w].found /\ frame'[w].stopped = frame[w].stopped
      /\ frame'[w].read = frame[w].read /\ frame'[w].seen = frame[w].seen
      /\ frame'[w].verify = frame[w].verify /\ frame'[w].ok = frame[w].ok
      /\ frame'[w].came = frame[w].came /\ frame'[w].alone = frame[w].alone
      /\ frame'[w].intact = frame[w].intact
  BY <1>1, <1>5 DEF Frame, Record
<1>6. ASSUME frame[w].op \in Repairs, Sound(client, daemon, conf, tmp, cache, latest, frame[w])
      PROVE  Sound(client, daemon', conf', tmp', cache', latest', frame'[w])
  BY <1>1, <1>2, <1>3, <1>6, <1>fields DEF Sound, Path, Owed, Seen, Way, Closing
<1> QED
  BY <1>1, <1>2, <1>3, <1>5, <1>6, <1>fields, GoesOn

\* _qbt_reset_stats_cache: from here on no figures are there.
LEMMA ResetStep ==
  ASSUME Inv, NEW w \in Workers, Reset(w)
  PROVE  Inv'
<1>1. /\ frame \in [Workers -> Frame(client)] /\ DaemonOK(client, daemon, conf) /\ cache \in Figures
      /\ frame[w] \in Frame(client) /\ tmp \in Settings \cup {None}
  BY TypeParts
<1>2. Busy(w) /\ frame[w].pc = "reset"
  BY DEF Reset, Busy
<1>3. UNCHANGED <<client, daemon, conf, tmp, latest>> /\ cache' \in Figures /\ ~cache'.there
  BY DEF Reset, reset_stats_cache, NoFigures, Figures
<1> DEFINE t == IF frame[w].op \in {"fix", "optimize"} THEN "answer" ELSE "done"
           p == IF frame[w].op \notin {"fix", "optimize"} THEN "status"
                ELSE IF frame[w].found THEN "snapshot" ELSE "answer"
           g == [frame[w] EXCEPT !.then = t, !.pc = p]
<1>4. /\ p \in {"status", "snapshot", "answer"} /\ t \in {"answer", "done"}
      /\ frame[w].op \in Repairs => t = "answer" /\ p = IF frame[w].found THEN "snapshot" ELSE "answer"
  BY DEF Repairs
<1>5. frame' = [frame EXCEPT ![w] = g]
  BY <1>1 DEF Reset
<1> HIDE DEF t, p
<1>6. g \in Frame(client)
  <2>1. p \in Points \ {"write", "prefs"}
    BY <1>1, <1>4 DEF Points, Closing
  <2> QED
    BY <1>1, <1>4, <2>1 DEF Frame, Record
<1>7. /\ frame' \in [Workers -> Frame(client)] /\ \A v \in Workers \ {w} : frame'[v] = frame[v]
      /\ frame'[w] = [frame[w] EXCEPT !.then = t, !.pc = p]
  BY ONLY w \in Workers, <1>1, <1>5, <1>6
<1>fields. /\ frame'[w].op = frame[w].op /\ frame'[w].pc = p /\ frame'[w].then = t
      /\ frame'[w].found = frame[w].found /\ frame'[w].stopped = frame[w].stopped
      /\ frame'[w].read = frame[w].read /\ frame'[w].seen = frame[w].seen
      /\ frame'[w].verify = frame[w].verify /\ frame'[w].ok = frame[w].ok
      /\ frame'[w].came = frame[w].came /\ frame'[w].alone = frame[w].alone
      /\ frame'[w].intact = frame[w].intact
  BY <1>1, <1>7 DEF Frame, Record
<1>8. ASSUME frame[w].op \in Repairs, Sound(client, daemon, conf, tmp, cache, latest, frame[w])
      PROVE  Sound(client, daemon', conf', tmp', cache', latest', frame'[w])
  BY <1>1, <1>2, <1>3, <1>4, <1>8, <1>fields DEF Sound, Path, Owed, Seen, Way, Closing
<1> QED
  BY <1>1, <1>2, <1>3, <1>7, <1>8, <1>fields, GoesOn

\* A repair answers: it says "verified" of what it saw.
LEMMA AnswerStep ==
  ASSUME Inv, NEW w \in Workers, Answer(w)
  PROVE  Inv'
<1>1. /\ frame \in [Workers -> Frame(client)] /\ DaemonOK(client, daemon, conf) /\ cache \in Figures
      /\ frame[w] \in Frame(client) /\ tmp \in Settings \cup {None}
  BY TypeParts
<1>2. Busy(w) /\ frame[w].pc = "answer"
  BY DEF Answer, Busy
<1>3. UNCHANGED <<client, daemon, conf, tmp, cache, latest>>
  BY DEF Answer
<1> DEFINE g == [frame[w] EXCEPT !.ok = TRUE, !.verify = frame[w].seen, !.then = "done", !.pc = "status"]
<1>4. frame' = [frame EXCEPT ![w] = g]
  BY <1>1 DEF Answer
<1>5. g \in Frame(client)
  <2>1. "status" \in Points \ {"write", "prefs"}
    BY <1>1 DEF Points, Closing
  <2> QED
    BY <1>1, <2>1 DEF Frame, Record
<1>6. /\ frame' \in [Workers -> Frame(client)] /\ \A v \in Workers \ {w} : frame'[v] = frame[v]
      /\ frame'[w] = [frame[w] EXCEPT !.ok = TRUE, !.verify = frame[w].seen, !.then = "done",
                                      !.pc = "status"]
  BY ONLY w \in Workers, <1>1, <1>4, <1>5
<1>fields. /\ frame'[w].op = frame[w].op /\ frame'[w].pc = "status" /\ frame'[w].then = "done"
      /\ frame'[w].found = frame[w].found /\ frame'[w].stopped = frame[w].stopped
      /\ frame'[w].read = frame[w].read /\ frame'[w].seen = frame[w].seen
      /\ frame'[w].verify = frame[w].seen /\ frame'[w].ok /\ frame'[w].came = frame[w].came
      /\ frame'[w].alone = frame[w].alone /\ frame'[w].intact = frame[w].intact
  BY <1>1, <1>6 DEF Frame, Record
<1>7. ASSUME frame[w].op \in Repairs, Sound(client, daemon, conf, tmp, cache, latest, frame[w])
      PROVE  Sound(client, daemon', conf', tmp', cache', latest', frame'[w])
  BY <1>1, <1>2, <1>3, <1>7, <1>fields DEF Sound, Path, Owed, Seen, Way, Closing
<1> QED
  BY <1>1, <1>2, <1>3, <1>6, <1>7, <1>fields, GoesOn

\* Whatever a control action does to the service, the types hold.
LEMMA EffectTyped ==
  ASSUME DaemonOK(client, daemon, conf), NEW action, NEW ok \in BOOLEAN, Effect(action, ok)
  PROVE  DaemonOK(client, daemon', conf')
<1>1. CASE action \in {"start", "stop", "restart"}
  BY <1>1, EffectFacts
<1>2. CASE action \notin {"start", "stop", "restart"}
  BY <1>2 DEF Effect, DaemonOK
<1> QED
  BY <1>1, <1>2

\* start, stop and restart: no repair comes here.
LEMMA ControlStep ==
  ASSUME Inv, NEW w \in Workers, execute_control_action(w)
  PROVE  Inv'
<1>1. /\ frame \in [Workers -> Frame(client)] /\ DaemonOK(client, daemon, conf) /\ cache \in Figures
      /\ frame[w] \in Frame(client) /\ tmp \in Settings \cup {None}
  BY TypeParts
<1>2. Busy(w) /\ frame[w].pc = "control"
  BY DEF execute_control_action, Busy
<1>3. UNCHANGED <<client, tmp, cache, latest>>
  BY DEF execute_control_action
<1>4. PICK ok \in BOOLEAN :
        /\ Effect(frame[w].op, ok)
        /\ frame' = [frame EXCEPT ![w].ok = ok, ![w].pc = IF ok THEN "reset" ELSE "done"]
  BY DEF execute_control_action, service_action
<1> DEFINE g == [frame[w] EXCEPT !.ok = ok, !.pc = IF ok THEN "reset" ELSE "done"]
<1>5. DaemonOK(client, daemon', conf')
  BY <1>1, <1>4, EffectTyped
<1>6. g \in Frame(client)
  <2>1. (IF ok THEN "reset" ELSE "done") \in Points \ {"write", "prefs"}
    BY <1>1 DEF Points, Closing
  <2> QED
    BY <1>1, <2>1 DEF Frame, Record
<1>7. frame' = [frame EXCEPT ![w] = g]
  BY <1>1, <1>4
<1>8. /\ frame' \in [Workers -> Frame(client)] /\ \A v \in Workers \ {w} : frame'[v] = frame[v]
      /\ frame'[w] = [frame[w] EXCEPT !.ok = ok, !.pc = IF ok THEN "reset" ELSE "done"]
  BY ONLY w \in Workers, <1>1, <1>6, <1>7
<1>fields. /\ frame'[w].op = frame[w].op /\ frame'[w].pc = (IF ok THEN "reset" ELSE "done")
      /\ frame'[w].then = frame[w].then /\ frame'[w].found = frame[w].found
      /\ frame'[w].stopped = frame[w].stopped /\ frame'[w].read = frame[w].read
      /\ frame'[w].seen = frame[w].seen /\ frame'[w].verify = frame[w].verify /\ frame'[w].ok = ok
      /\ frame'[w].came = frame[w].came /\ frame'[w].alone = frame[w].alone
      /\ frame'[w].intact = frame[w].intact
  BY <1>1, <1>8 DEF Frame, Record
<1>9. ~Sound(client, daemon, conf, tmp, cache, latest, frame[w])
  BY <1>2 DEF Sound, Path
<1> QED
  BY <1>1, <1>2, <1>3, <1>5, <1>8, <1>9, <1>fields, GoesOn

\* quit: no repair comes here.
LEMMA QuitStep ==
  ASSUME Inv, NEW w \in Workers, shutdown_once(w)
  PROVE  Inv'
<1>1. /\ frame \in [Workers -> Frame(client)] /\ DaemonOK(client, daemon, conf) /\ cache \in Figures
      /\ frame[w] \in Frame(client) /\ tmp \in Settings \cup {None}
  BY TypeParts
<1>2. Busy(w) /\ frame[w].pc = "quit"
  BY DEF shutdown_once, Busy
<1>3. UNCHANGED <<client, conf, tmp, cache, latest>>
  BY DEF shutdown_once
<1>4. PICK answers \in BOOLEAN :
        /\ Told(answers, [daemon EXCEPT !.ending = TRUE, !.up = FALSE])
        /\ frame' = [frame EXCEPT ![w].ok = answers, ![w].pc = IF answers THEN "reset" ELSE "done"]
  BY DEF shutdown_once
<1> DEFINE g == [frame[w] EXCEPT !.ok = answers, !.pc = IF answers THEN "reset" ELSE "done"]
<1>5. DaemonOK(client, daemon', conf')
  <2>1. daemon' = daemon \/ daemon' = [daemon EXCEPT !.ending = TRUE, !.up = FALSE]
    BY <1>4 DEF Told
  <2> QED
    BY <1>1, <1>3, <2>1 DEF DaemonOK, Daemon
<1>6. frame' = [frame EXCEPT ![w] = g]
  BY <1>1, <1>4
<1>7. g \in Frame(client)
  <2>1. (IF answers THEN "reset" ELSE "done") \in Points \ {"write", "prefs"}
    BY <1>1, <1>4 DEF Points, Closing
  <2> QED
    BY <1>1, <1>4, <2>1 DEF Frame, Record
<1>8. /\ frame' \in [Workers -> Frame(client)] /\ \A v \in Workers \ {w} : frame'[v] = frame[v]
      /\ frame'[w] = [frame[w] EXCEPT !.ok = answers, !.pc = IF answers THEN "reset" ELSE "done"]
  BY ONLY w \in Workers, <1>1, <1>6, <1>7
<1>fields. /\ frame'[w].op = frame[w].op /\ frame'[w].pc = (IF answers THEN "reset" ELSE "done")
      /\ frame'[w].then = frame[w].then /\ frame'[w].found = frame[w].found
      /\ frame'[w].stopped = frame[w].stopped /\ frame'[w].read = frame[w].read
      /\ frame'[w].seen = frame[w].seen /\ frame'[w].verify = frame[w].verify
      /\ frame'[w].ok = answers /\ frame'[w].came = frame[w].came
      /\ frame'[w].alone = frame[w].alone /\ frame'[w].intact = frame[w].intact
  BY <1>1, <1>8 DEF Frame, Record
<1>9. ~Sound(client, daemon, conf, tmp, cache, latest, frame[w])
  BY <1>2 DEF Sound, Path
<1> QED
  BY <1>1, <1>2, <1>3, <1>5, <1>8, <1>9, <1>fields, GoesOn

\* An optimization starts a service that is not running.
LEMMA EnsureStep ==
  ASSUME Inv, NEW w \in Workers, Ensure(w)
  PROVE  Inv'
<1>1. /\ frame \in [Workers -> Frame(client)] /\ DaemonOK(client, daemon, conf) /\ cache \in Figures
      /\ frame[w] \in Frame(client) /\ tmp \in Settings \cup {None}
  BY TypeParts
<1>2. Busy(w) /\ frame[w].pc = "ensure"
  BY DEF Ensure, Busy
<1>3. UNCHANGED <<client, tmp, cache, latest>>
  BY DEF Ensure
<1>4. /\ DaemonOK(client, daemon', conf')
      /\ client # "transmission" => \A l : Kept(daemon, conf, l) => Kept(daemon', conf', l)
  <2>1. CASE UNCHANGED <<daemon, conf>>
    BY <1>1, <2>1
  <2>2. CASE \E ok \in BOOLEAN : Effect("start", ok)
    BY <1>1, <2>2, EffectFacts
  <2> QED
    BY <2>1, <2>2 DEF Ensure, service_action
<1> DEFINE p == Enter("fix")
<1>5. /\ p \in {"meta", "prefs", "nq_start"} /\ p \in Points
      /\ p = "meta" => client = "qbittorrent"
      /\ p = "prefs" => client = "docker"
      /\ p = "nq_start" => client \notin {"qbittorrent", "docker"}
  BY DEF Enter, Points
<1>6. frame' = [frame EXCEPT ![w].pc = p]
  BY DEF Ensure, Goto
<1> HIDE DEF p
<1>7. /\ frame' \in [Workers -> Frame(client)] /\ \A v \in Workers \ {w} : frame'[v] = frame[v]
      /\ frame'[w] = [frame[w] EXCEPT !.pc = p]
  BY <1>5, <1>6, GotoFacts
<1>fields. /\ frame'[w].op = frame[w].op /\ frame'[w].pc = p /\ frame'[w].then = frame[w].then
      /\ frame'[w].found = frame[w].found /\ frame'[w].stopped = frame[w].stopped
      /\ frame'[w].read = frame[w].read /\ frame'[w].seen = frame[w].seen
      /\ frame'[w].verify = frame[w].verify /\ frame'[w].ok = frame[w].ok
      /\ frame'[w].came = frame[w].came /\ frame'[w].alone = frame[w].alone
      /\ frame'[w].intact = frame[w].intact
  BY <1>1, <1>7 DEF Frame, Record
<1>8. ASSUME frame[w].op \in Repairs, Sound(client, daemon, conf, tmp, cache, latest, frame[w])
      PROVE  Sound(client, daemon', conf', tmp', cache', latest', frame'[w])
  BY <1>1, <1>2, <1>3, <1>4, <1>5, <1>8, <1>fields DEF Sound, Path, Owed, Seen, Way, Closing
<1> QED
  BY <1>1, <1>2, <1>3, <1>4, <1>7, <1>8, <1>fields, GoesOn

\* _qbt_service_meta: was the service running?
LEMMA MetaStep ==
  ASSUME Inv, NEW w \in Workers, Meta(w)
  PROVE  Inv'
<1>1. /\ frame \in [Workers -> Frame(client)] /\ DaemonOK(client, daemon, conf) /\ cache \in Figures
      /\ frame[w] \in Frame(client) /\ tmp \in Settings \cup {None}
  BY TypeParts
<1>2. Busy(w) /\ frame[w].pc = "meta"
  BY DEF Meta, Busy
<1>3. UNCHANGED <<client, daemon, conf, tmp, cache, latest>>
  BY DEF Meta
<1>4. Active = daemon.run /\ daemon.run \in BOOLEAN
  BY <1>1 DEF Active, systemd_active, container_active, DaemonOK, Daemon
<1> DEFINE g == [frame[w] EXCEPT !.found = daemon.run, !.pc = IF daemon.run THEN "stop" ELSE "read"]
<1>5. frame' = [frame EXCEPT ![w] = g]
  BY <1>1, <1>4 DEF Meta
<1>6. g \in Frame(client)
  <2>1. (IF daemon.run THEN "stop" ELSE "read") \in Points \ {"write", "prefs"}
    BY <1>1, <1>4 DEF Points, Closing
  <2> QED
    BY <1>1, <1>4, <2>1 DEF Frame, Record
<1>7. /\ frame' \in [Workers -> Frame(client)] /\ \A v \in Workers \ {w} : frame'[v] = frame[v]
      /\ frame'[w] = [frame[w] EXCEPT !.found = daemon.run, !.pc = IF daemon.run THEN "stop" ELSE "read"]
  BY ONLY w \in Workers, <1>1, <1>5, <1>6
<1>fields. /\ frame'[w].op = frame[w].op /\ frame'[w].pc = (IF daemon.run THEN "stop" ELSE "read")
      /\ frame'[w].then = frame[w].then /\ frame'[w].found = daemon.run
      /\ frame'[w].stopped = frame[w].stopped /\ frame'[w].read = frame[w].read
      /\ frame'[w].seen = frame[w].seen /\ frame'[w].verify = frame[w].verify
      /\ frame'[w].ok = frame[w].ok /\ frame'[w].came = frame[w].came
      /\ frame'[w].alone = frame[w].alone /\ frame'[w].intact = frame[w].intact
  BY <1>1, <1>7 DEF Frame, Record
<1>8. ASSUME frame[w].op \in Repairs, Sound(client, daemon, conf, tmp, cache, latest, frame[w])
      PROVE  Sound(client, daemon', conf', tmp', cache', latest', frame'[w])
  BY <1>1, <1>2, <1>3, <1>4, <1>8, <1>fields DEF Sound, Path, Owed, Seen, Way, Closing
<1> QED
  BY <1>1, <1>2, <1>3, <1>7, <1>8, <1>fields, GoesOn

\* The service is stopped, or still runs when that failed.
LEMMA StopStep ==
  ASSUME Inv, NEW w \in Workers, Stop(w)
  PROVE  Inv'
<1>1. /\ frame \in [Workers -> Frame(client)] /\ DaemonOK(client, daemon, conf) /\ cache \in Figures
      /\ frame[w] \in Frame(client) /\ tmp \in Settings \cup {None}
  BY TypeParts
<1>2. Busy(w) /\ frame[w].pc = "stop"
  BY DEF Stop, Busy
<1>3. UNCHANGED <<client, tmp, cache, latest>>
  BY DEF Stop
<1>4. PICK ok \in BOOLEAN :
        /\ Effect("stop", ok)
        /\ frame' = [frame EXCEPT ![w].stopped = ok, ![w].came = ok \/ daemon'.run,
                                  ![w].pc = IF ok THEN "read" ELSE "except"]
  BY DEF Stop, service_action
<1> DEFINE fine == ok \/ daemon'.run
           g == [frame[w] EXCEPT !.stopped = ok, !.came = fine, !.pc = IF ok THEN "read" ELSE "except"]
<1>5. /\ DaemonOK(client, daemon', conf')
      /\ client # "transmission" => \A l : Kept(daemon, conf, l) => Kept(daemon', conf', l)
      /\ ok => ~daemon'.run
      /\ daemon'.run => daemon' = daemon
      /\ fine \in BOOLEAN /\ (~ok => fine = daemon'.run)
  BY <1>1, <1>4, EffectFacts DEF DaemonOK, Daemon
<1>7. frame' = [frame EXCEPT ![w] = g]
  BY <1>1, <1>4
<1> HIDE DEF fine
<1>6. g \in Frame(client)
  <2>1. (IF ok THEN "read" ELSE "except") \in Points \ {"write", "prefs"}
    BY <1>1 DEF Points, Closing
  <2> QED
    BY <1>1, <1>5, <2>1 DEF Frame, Record
<1>8. /\ frame' \in [Workers -> Frame(client)] /\ \A v \in Workers \ {w} : frame'[v] = frame[v]
      /\ frame'[w] = [frame[w] EXCEPT !.stopped = ok, !.came = fine, !.pc = IF ok THEN "read" ELSE "except"]
  BY ONLY w \in Workers, <1>1, <1>6, <1>7
<1>fields. /\ frame'[w].op = frame[w].op /\ frame'[w].pc = (IF ok THEN "read" ELSE "except")
      /\ frame'[w].then = frame[w].then /\ frame'[w].found = frame[w].found
      /\ frame'[w].stopped = ok /\ frame'[w].read = frame[w].read /\ frame'[w].seen = frame[w].seen
      /\ frame'[w].verify = frame[w].verify /\ frame'[w].ok = frame[w].ok
      /\ frame'[w].came = fine /\ frame'[w].alone = frame[w].alone
      /\ frame'[w].intact = frame[w].intact
  BY <1>1, <1>8 DEF Frame, Record
<1>9. ASSUME frame[w].op \in Repairs, Sound(client, daemon, conf, tmp, cache, latest, frame[w])
      PROVE  Sound(client, daemon', conf', tmp', cache', latest', frame'[w])
  BY <1>1, <1>2, <1>3, <1>5, <1>9, <1>fields DEF Sound, Path, Owed, Seen, Way, Closing
<1> QED
  BY <1>1, <1>2, <1>3, <1>5, <1>8, <1>9, <1>fields, GoesOn

\* Reading or writing the settings fails.
LEMMA RaisesStep ==
  ASSUME Inv, NEW w \in Workers, Raises(w)
  PROVE  Inv'
<1>1. /\ frame \in [Workers -> Frame(client)] /\ DaemonOK(client, daemon, conf) /\ cache \in Figures
      /\ frame[w] \in Frame(client) /\ tmp \in Settings \cup {None}
  BY TypeParts
<1>2. Busy(w) /\ frame[w].pc \in {"read", "write"}
  BY DEF Raises, Busy
<1>3. UNCHANGED <<client, daemon, conf, cache, latest>> /\ tmp' \in Settings \cup {None}
  <2>1. UNCHANGED <<client, daemon, conf, cache, latest>> /\ tmp' \in {tmp, Blank}
    BY DEF Raises
  <2> QED
    BY <1>1, <2>1, BlankSettings
<1>4. frame' = [frame EXCEPT ![w].pc = "except"] /\ "except" \in Points
  BY DEF Raises, Goto, Points
<1>5. /\ frame' \in [Workers -> Frame(client)] /\ \A v \in Workers \ {w} : frame'[v] = frame[v]
      /\ frame'[w] = [frame[w] EXCEPT !.pc = "except"]
  BY <1>4, GotoFacts
<1>fields. /\ frame'[w].op = frame[w].op /\ frame'[w].pc = "except" /\ frame'[w].then = frame[w].then
      /\ frame'[w].found = frame[w].found /\ frame'[w].stopped = frame[w].stopped
      /\ frame'[w].read = frame[w].read /\ frame'[w].seen = frame[w].seen
      /\ frame'[w].verify = frame[w].verify /\ frame'[w].ok = frame[w].ok
      /\ frame'[w].came = frame[w].came /\ frame'[w].alone = frame[w].alone
      /\ frame'[w].intact = frame[w].intact
  BY <1>1, <1>5 DEF Frame, Record
<1>6. ASSUME frame[w].op \in Repairs, Sound(client, daemon, conf, tmp, cache, latest, frame[w])
      PROVE  Sound(client, daemon', conf', tmp', cache', latest', frame'[w])
  BY <1>1, <1>2, <1>3, <1>6, <1>fields DEF Sound, Path, Owed, Seen, Way, Closing
<1> QED
  BY <1>1, <1>2, <1>3, <1>5, <1>6, <1>fields, GoesOn

\* The settings are read: they are those in the file.
LEMMA ReadStep ==
  ASSUME Inv, NEW w \in Workers, Read(w)
  PROVE  Inv'
<1>1. /\ frame \in [Workers -> Frame(client)] /\ DaemonOK(client, daemon, conf) /\ cache \in Figures
      /\ frame[w] \in Frame(client) /\ tmp \in Settings \cup {None}
  BY TypeParts
<1>2. Busy(w) /\ frame[w].pc = "read"
  BY DEF Read, Busy
<1>3. UNCHANGED <<client, daemon, conf, tmp, cache, latest>>
  BY DEF Read
<1> DEFINE g == [frame[w] EXCEPT !.read = conf, !.pc = "write"]
<1>4. frame' = [frame EXCEPT ![w] = g]
  BY <1>1 DEF Read
<1>5. g \in Frame(client)
  BY <1>1 DEF Frame, Record, Points, DaemonOK
<1>6. /\ frame' \in [Workers -> Frame(client)] /\ \A v \in Workers \ {w} : frame'[v] = frame[v]
      /\ frame'[w] = [frame[w] EXCEPT !.read = conf, !.pc = "write"]
  BY ONLY w \in Workers, <1>1, <1>4, <1>5
<1>fields. /\ frame'[w].op = frame[w].op /\ frame'[w].pc = "write" /\ frame'[w].then = frame[w].then
      /\ frame'[w].found = frame[w].found /\ frame'[w].stopped = frame[w].stopped
      /\ frame'[w].read = conf /\ frame'[w].seen = frame[w].seen
      /\ frame'[w].verify = frame[w].verify /\ frame'[w].ok = frame[w].ok
      /\ frame'[w].came = frame[w].came /\ frame'[w].alone = frame[w].alone
      /\ frame'[w].intact = frame[w].intact
  BY <1>1, <1>6 DEF Frame, Record
<1>7. ASSUME frame[w].op \in Repairs, Sound(client, daemon, conf, tmp, cache, latest, frame[w])
      PROVE  Sound(client, daemon', conf', tmp', cache', latest', frame'[w])
  BY <1>1, <1>2, <1>3, <1>7, <1>fields DEF Sound, Path, Owed, Seen, Way, Closing
<1> QED
  BY <1>1, <1>2, <1>3, <1>6, <1>7, <1>fields, GoesOn

\* What the new settings have, and keep, of the old.
LEMMA DesiredFacts ==
  ASSUME NEW op, NEW s \in Settings
  PROVE  /\ Desired(op, s) \in Settings /\ Desired(op, s).monitor /\ Desired(op, s).own = s.own
         /\ op = "optimize" => Desired(op, s).limits
BY DEF Desired, Settings

\* The new settings are written beside the file.
LEMMA WriteStep ==
  ASSUME Inv, NEW w \in Workers, WriteTmp(w)
  PROVE  Inv'
<1>1. /\ frame \in [Workers -> Frame(client)] /\ DaemonOK(client, daemon, conf) /\ cache \in Figures
      /\ frame[w] \in Frame(client) /\ tmp \in Settings \cup {None}
  BY TypeParts
<1>2. Busy(w) /\ frame[w].pc = "write" /\ frame[w].read \in Settings
  BY <1>1 DEF WriteTmp, Busy, Frame
<1>3. UNCHANGED <<client, daemon, conf, cache, latest>> /\ tmp' = Desired(frame[w].op, frame[w].read)
  BY DEF WriteTmp
<1>4. tmp' \in Settings \cup {None}
  BY <1>2, <1>3, DesiredFacts
<1>5. frame' = [frame EXCEPT ![w].pc = "replace"] /\ "replace" \in Points
  BY DEF WriteTmp, Goto, Points
<1>6. /\ frame' \in [Workers -> Frame(client)] /\ \A v \in Workers \ {w} : frame'[v] = frame[v]
      /\ frame'[w] = [frame[w] EXCEPT !.pc = "replace"]
  BY <1>5, GotoFacts
<1>fields. /\ frame'[w].op = frame[w].op /\ frame'[w].pc = "replace" /\ frame'[w].then = frame[w].then
      /\ frame'[w].found = frame[w].found /\ frame'[w].stopped = frame[w].stopped
      /\ frame'[w].read = frame[w].read /\ frame'[w].seen = frame[w].seen
      /\ frame'[w].verify = frame[w].verify /\ frame'[w].ok = frame[w].ok
      /\ frame'[w].came = frame[w].came /\ frame'[w].alone = frame[w].alone
      /\ frame'[w].intact = frame[w].intact
  BY <1>1, <1>6 DEF Frame, Record
<1>7. ASSUME frame[w].op \in Repairs, Sound(client, daemon, conf, tmp, cache, latest, frame[w])
      PROVE  Sound(client, daemon', conf', tmp', cache', latest', frame'[w])
  BY <1>1, <1>2, <1>3, <1>7, <1>fields DEF Sound, Path, Owed, Seen, Way, Closing
<1> QED
  BY <1>1, <1>2, <1>3, <1>4, <1>6, <1>7, <1>fields, GoesOn

\* os.replace: the file holds the new settings, and what the users had set.
LEMMA ReplaceStep ==
  ASSUME Inv, NEW w \in Workers, Replace(w)
  PROVE  Inv'
<1>1. /\ frame \in [Workers -> Frame(client)] /\ DaemonOK(client, daemon, conf) /\ cache \in Figures
      /\ frame[w] \in Frame(client) /\ tmp \in Settings \cup {None}
  BY TypeParts
<1>2. Busy(w) /\ frame[w].pc = "replace"
  BY DEF Replace, Busy
<1>3. UNCHANGED <<client, daemon, cache, latest>> /\ tmp' = None
  BY DEF Replace
<1>4. CASE tmp = None
  <2>1. frame' = [frame EXCEPT ![w].pc = "except"] /\ conf' = conf /\ "except" \in Points
    BY <1>4 DEF Replace, Goto, Points
  <2>2. /\ frame' \in [Workers -> Frame(client)] /\ \A v \in Workers \ {w} : frame'[v] = frame[v]
        /\ frame'[w] = [frame[w] EXCEPT !.pc = "except"]
    BY <2>1, GotoFacts
  <2>fields. /\ frame'[w].op = frame[w].op /\ frame'[w].pc = "except" /\ frame'[w].then = frame[w].then
        /\ frame'[w].found = frame[w].found /\ frame'[w].stopped = frame[w].stopped
        /\ frame'[w].read = frame[w].read /\ frame'[w].seen = frame[w].seen
        /\ frame'[w].verify = frame[w].verify /\ frame'[w].ok = frame[w].ok
        /\ frame'[w].came = frame[w].came /\ frame'[w].alone = frame[w].alone
        /\ frame'[w].intact = frame[w].intact
    BY <1>1, <2>2 DEF Frame, Record
  <2>3. ASSUME frame[w].op \in Repairs, Sound(client, daemon, conf, tmp, cache, latest, frame[w])
        PROVE  Sound(client, daemon', conf', tmp', cache', latest', frame'[w])
    BY <1>1, <1>2, <1>3, <2>1, <2>3, <2>fields DEF Sound, Path, Owed, Seen, Way, Closing
  <2> QED
    BY <1>1, <1>2, <1>3, <2>1, <2>2, <2>3, <2>fields, GoesOn
<1>5. CASE tmp # None
  <2> DEFINE p == IF frame[w].found THEN "start" ELSE "reset"
  <2>1. frame' = [frame EXCEPT ![w].pc = p] /\ conf' = tmp
    BY <1>5 DEF Replace, Goto
  <2>2. p \in {"start", "reset"} /\ p \in Points /\ (frame[w].found <=> p = "start")
    BY DEF Points, Closing
  <2> HIDE DEF p
  <2>3. /\ frame' \in [Workers -> Frame(client)] /\ \A v \in Workers \ {w} : frame'[v] = frame[v]
        /\ frame'[w] = [frame[w] EXCEPT !.pc = p]
    BY <2>1, <2>2, GotoFacts
  <2>fields. /\ frame'[w].op = frame[w].op /\ frame'[w].pc = p /\ frame'[w].then = frame[w].then
        /\ frame'[w].found = frame[w].found /\ frame'[w].stopped = frame[w].stopped
        /\ frame'[w].read = frame[w].read /\ frame'[w].seen = frame[w].seen
        /\ frame'[w].verify = frame[w].verify /\ frame'[w].ok = frame[w].ok
        /\ frame'[w].came = frame[w].came /\ frame'[w].alone = frame[w].alone
        /\ frame'[w].intact = frame[w].intact
    BY <1>1, <2>3 DEF Frame, Record
  <2>4. DaemonOK(client, daemon', conf')
    BY <1>1, <1>3, <1>5, <2>1 DEF DaemonOK
  <2>5. ASSUME frame[w].op \in Repairs, Sound(client, daemon, conf, tmp, cache, latest, frame[w])
        PROVE  Sound(client, daemon', conf', tmp', cache', latest', frame'[w])
    <3> DEFINE h == frame'[w]
    <3>1. /\ h.pc = p /\ h.then = frame[w].then /\ h.ok = frame[w].ok /\ h.verify = frame[w].verify
          /\ h.found = frame[w].found /\ h.seen = frame[w].seen /\ h.op = frame[w].op
          /\ h.intact = frame[w].intact /\ h.stopped = frame[w].stopped
      BY <1>1, <2>3 DEF Frame, Record
    <3>2. conf' = Desired(h.op, conf) /\ conf \in Settings /\ ~daemon.run /\ client = "qbittorrent"
      BY <1>1, <1>2, <2>1, <2>5, <3>1 DEF Sound, Path, Way, DaemonOK
    <3> HIDE DEF h
    <3>3. conf'.monitor /\ conf'.own = conf.own /\ (h.op = "optimize" => conf'.limits)
      BY <3>2, DesiredFacts
    <3>4. Path(client, h) /\ Owed(daemon, h) /\ Seen(daemon, cache, h)
      BY <1>2, <2>2, <2>5, <3>1, <3>2 DEF Sound, Path, Owed, Seen, Closing
    <3>5. Way(client, daemon, conf', tmp', h)
      BY <1>2, <2>2, <2>5, <3>1, <3>2, <3>3 DEF Sound, Way, Closing, Wanted, Effective
    <3>6. h.intact => Kept(daemon, conf', latest)
      BY <1>1, <1>2, <2>5, <3>1, <3>2, <3>3 DEF Sound, Kept, Effective, DaemonOK
    <3> QED
      BY <1>3, <3>4, <3>5, <3>6 DEF Sound, h
  <2> QED
    BY <1>1, <1>2, <1>3, <2>3, <2>4, <2>5, <2>fields, GoesOn
<1> QED
  BY <1>4, <1>5

\* The service starts with the new settings, or is owed to the handler.
LEMMA StartAgainStep ==
  ASSUME Inv, NEW w \in Workers, StartAgain(w)
  PROVE  Inv'
<1>1. /\ frame \in [Workers -> Frame(client)] /\ DaemonOK(client, daemon, conf) /\ cache \in Figures
      /\ frame[w] \in Frame(client) /\ tmp \in Settings \cup {None}
  BY TypeParts
<1>2. Busy(w) /\ frame[w].pc = "start"
  BY DEF StartAgain, Busy
<1>3. UNCHANGED <<client, tmp, cache, latest>>
  BY DEF StartAgain
<1>4. PICK ok \in BOOLEAN :
        /\ Effect("start", ok)
        /\ frame' = [frame EXCEPT ![w].stopped = ~ok, ![w].came = ok,
                        ![w].pc = IF ok THEN "reset" ELSE "except"]
  BY DEF StartAgain, service_action
<1> DEFINE left == ~ok
           g == [frame[w] EXCEPT !.stopped = left, !.came = ok, !.pc = IF ok THEN "reset" ELSE "except"]
<1>5. /\ DaemonOK(client, daemon', conf')
      /\ client # "transmission" => \A l : Kept(daemon, conf, l) => Kept(daemon', conf', l)
      /\ conf' = conf
      /\ ok => daemon'.run /\ (~daemon.run => daemon'.live = conf)
  BY <1>1, <1>4, EffectFacts, DownStarted DEF DaemonOK
<1>6. frame' = [frame EXCEPT ![w] = g]
  BY <1>1, <1>4
<1>7. left \in BOOLEAN /\ (left <=> ~ok)
  OBVIOUS
<1> HIDE DEF left
<1>8. g \in Frame(client)
  <2>1. (IF ok THEN "reset" ELSE "except") \in Points \ {"write", "prefs"}
    BY <1>1, <1>7 DEF Points, Closing
  <2> QED
    BY <1>1, <1>7, <2>1 DEF Frame, Record
<1>9. /\ frame' \in [Workers -> Frame(client)] /\ \A v \in Workers \ {w} : frame'[v] = frame[v]
      /\ frame'[w] = [frame[w] EXCEPT !.stopped = left, !.came = ok,
                                      !.pc = IF ok THEN "reset" ELSE "except"]
  BY ONLY w \in Workers, <1>1, <1>6, <1>8
<1>fields. /\ frame'[w].op = frame[w].op /\ frame'[w].pc = (IF ok THEN "reset" ELSE "except")
      /\ frame'[w].then = frame[w].then /\ frame'[w].found = frame[w].found
      /\ frame'[w].stopped = left /\ frame'[w].read = frame[w].read
      /\ frame'[w].seen = frame[w].seen /\ frame'[w].verify = frame[w].verify
      /\ frame'[w].ok = frame[w].ok /\ frame'[w].came = ok /\ frame'[w].alone = frame[w].alone
      /\ frame'[w].intact = frame[w].intact
  BY <1>1, <1>9 DEF Frame, Record
<1>10. ASSUME frame[w].op \in Repairs, Sound(client, daemon, conf, tmp, cache, latest, frame[w])
      PROVE  Sound(client, daemon', conf', tmp', cache', latest', frame'[w])
  BY <1>1, <1>2, <1>3, <1>5, <1>7, <1>10, <1>fields DEF Sound, Path, Owed, Seen, Way, Closing, Effective
<1> QED
  BY <1>1, <1>2, <1>3, <1>5, <1>9, <1>10, <1>fields, GoesOn

\* The handler starts a service it stopped (app.py 10139-10141).
LEMMA ExceptStep ==
  ASSUME Inv, NEW w \in Workers, Except(w)
  PROVE  Inv'
<1>1. /\ frame \in [Workers -> Frame(client)] /\ DaemonOK(client, daemon, conf) /\ cache \in Figures
      /\ frame[w] \in Frame(client) /\ tmp \in Settings \cup {None}
  BY TypeParts
<1>2. Busy(w) /\ frame[w].pc = "except"
  BY DEF Except, Busy
<1>3. UNCHANGED <<client, tmp, cache, latest>>
  BY DEF Except
<1>4. CASE frame[w].found /\ frame[w].stopped
  <2>1. PICK ok \in BOOLEAN :
          /\ Effect("start", ok)
          /\ frame' = [frame EXCEPT ![w].came = ok, ![w].pc = "done"]
    BY <1>4 DEF Except, service_action
  <2> DEFINE g == [frame[w] EXCEPT !.came = ok, !.pc = "done"]
  <2>2. /\ DaemonOK(client, daemon', conf')
        /\ client # "transmission" => \A l : Kept(daemon, conf, l) => Kept(daemon', conf', l)
        /\ ok => daemon'.run
    BY <1>1, <2>1, EffectFacts
  <2>3. g \in Frame(client)
    <3>1. "done" \in Points \ {"write", "prefs"}
      BY <1>1 DEF Points, Closing
    <3> QED
      BY <1>1, <3>1 DEF Frame, Record
  <2>4. frame' = [frame EXCEPT ![w] = g]
    BY <1>1, <2>1
  <2>5. /\ frame' \in [Workers -> Frame(client)] /\ \A v \in Workers \ {w} : frame'[v] = frame[v]
        /\ frame'[w] = [frame[w] EXCEPT !.came = ok, !.pc = "done"]
    BY ONLY w \in Workers, <1>1, <2>3, <2>4
  <2>fields. /\ frame'[w].op = frame[w].op /\ frame'[w].pc = "done" /\ frame'[w].then = frame[w].then
        /\ frame'[w].found = frame[w].found /\ frame'[w].stopped = frame[w].stopped
        /\ frame'[w].read = frame[w].read /\ frame'[w].seen = frame[w].seen
        /\ frame'[w].verify = frame[w].verify /\ frame'[w].ok = frame[w].ok /\ frame'[w].came = ok
        /\ frame'[w].alone = frame[w].alone /\ frame'[w].intact = frame[w].intact
    BY <1>1, <2>5 DEF Frame, Record
  <2>6. ASSUME frame[w].op \in Repairs, Sound(client, daemon, conf, tmp, cache, latest, frame[w])
        PROVE  Sound(client, daemon', conf', tmp', cache', latest', frame'[w])
    BY <1>1, <1>2, <1>3, <2>2, <2>6, <2>fields DEF Sound, Path, Owed, Seen, Way, Closing
  <2> QED
    BY <1>1, <1>2, <1>3, <2>2, <2>5, <2>6, <2>fields, GoesOn
<1>5. CASE ~(frame[w].found /\ frame[w].stopped)
  <2>1. frame' = [frame EXCEPT ![w].pc = "done"] /\ UNCHANGED <<daemon, conf>> /\ "done" \in Points
    BY <1>5 DEF Except, Goto, Points, Closing
  <2>2. /\ frame' \in [Workers -> Frame(client)] /\ \A v \in Workers \ {w} : frame'[v] = frame[v]
        /\ frame'[w] = [frame[w] EXCEPT !.pc = "done"]
    BY <2>1, GotoFacts
  <2>fields. /\ frame'[w].op = frame[w].op /\ frame'[w].pc = "done" /\ frame'[w].then = frame[w].then
        /\ frame'[w].found = frame[w].found /\ frame'[w].stopped = frame[w].stopped
        /\ frame'[w].read = frame[w].read /\ frame'[w].seen = frame[w].seen
        /\ frame'[w].verify = frame[w].verify /\ frame'[w].ok = frame[w].ok
        /\ frame'[w].came = frame[w].came /\ frame'[w].alone = frame[w].alone
        /\ frame'[w].intact = frame[w].intact
    BY <1>1, <2>2 DEF Frame, Record
  <2>3. ASSUME frame[w].op \in Repairs, Sound(client, daemon, conf, tmp, cache, latest, frame[w])
        PROVE  Sound(client, daemon', conf', tmp', cache', latest', frame'[w])
    BY <1>1, <1>2, <1>3, <1>5, <2>1, <2>3, <2>fields DEF Sound, Path, Owed, Seen, Way, Closing
  <2> QED
    BY <1>1, <1>2, <1>3, <2>1, <2>2, <2>3, <2>fields, GoesOn
<1> QED
  BY <1>4, <1>5

\* A setting the WebUI says it took is in force; nothing else is changed.
LEMMA PreferencesFacts ==
  ASSUME DaemonOK(client, daemon, conf), client = "docker", NEW pref \in {"moves", "limits"},
         NEW ok \in BOOLEAN, SetPreferences(pref, ok), conf' = conf
  PROVE  /\ ok => daemon.run
         /\ DaemonOK(client, daemon', conf') /\ daemon'.run = daemon.run
         /\ ok => /\ pref = "moves" => daemon'.live.moves
                  /\ pref = "limits" => daemon'.live.limits
         /\ \A l : Kept(daemon, conf, l) => Kept(daemon', conf', l)
<1> DEFINE s == IF pref = "moves" THEN [daemon.live EXCEPT !.moves = TRUE]
                                 ELSE [daemon.live EXCEPT !.limits = TRUE]
           new == [daemon EXCEPT !.live = s, !.dirty = TRUE]
<1>1. daemon.up => daemon.run /\ daemon.live \in Settings
  BY DEF DaemonOK
<1>2. Told(ok, new)
  BY DEF SetPreferences
<1>3. Reachable => daemon.up
  BY DEF Reachable, candidate_base_urls_serve
<1>4. CASE daemon' = daemon /\ ~ok
  BY <1>4 DEF DaemonOK, Kept, Effective
<1>5. CASE daemon' = new /\ Reachable
  <2>1. /\ s \in Settings /\ s.own = daemon.live.own
        /\ pref = "moves" => s.moves
        /\ pref = "limits" => s.limits
    BY <1>1, <1>3, <1>5 DEF Settings
  <2> HIDE DEF s
  <2>2. /\ daemon' \in Daemon /\ daemon'.live = s /\ daemon'.dirty
        /\ daemon'.run = daemon.run /\ daemon'.up = daemon.up
    BY <1>5, <2>1 DEF DaemonOK, Daemon
  <2> QED
    BY <1>1, <1>3, <1>5, <2>1, <2>2 DEF DaemonOK, Kept, Effective
<1> QED
  BY <1>2, <1>4, <1>5 DEF Told

\* An optimization of a container.
LEMMA LimitsStep ==
  ASSUME Inv, NEW w \in Workers, Limits(w)
  PROVE  Inv'
<1>1. /\ frame \in [Workers -> Frame(client)] /\ DaemonOK(client, daemon, conf) /\ cache \in Figures
      /\ frame[w] \in Frame(client) /\ tmp \in Settings \cup {None}
  BY TypeParts
<1>2. Busy(w) /\ frame[w].pc = "prefs" /\ frame[w].op = "optimize" /\ client = "docker"
  BY <1>1 DEF Limits, Busy, Frame
<1>3. UNCHANGED <<client, conf, tmp, cache, latest>>
  BY DEF Limits
<1>9. PICK answers \in BOOLEAN :
        /\ SetPreferences("limits", answers)
        /\ frame' = [frame EXCEPT ![w].found = answers,
                                  ![w].pc = IF answers THEN "reset" ELSE "done"]
  BY DEF Limits
<1> DEFINE g == [frame[w] EXCEPT !.found = answers, !.pc = IF answers THEN "reset" ELSE "done"]
<1>4. /\ answers => daemon.run
      /\ DaemonOK(client, daemon', conf') /\ daemon'.run = daemon.run
      /\ answers => daemon'.live.limits
      /\ \A l : Kept(daemon, conf, l) => Kept(daemon', conf', l)
  BY <1>1, <1>2, <1>3, <1>9, PreferencesFacts
<1>5. frame' = [frame EXCEPT ![w] = g]
  BY <1>1, <1>9
<1>6. g \in Frame(client)
  <2>1. (IF answers THEN "reset" ELSE "done") \in Points \ {"write", "prefs"}
    BY <1>1, <1>4 DEF Points, Closing
  <2> QED
    BY <1>1, <1>4, <2>1 DEF Frame, Record
<1>7. /\ frame' \in [Workers -> Frame(client)] /\ \A v \in Workers \ {w} : frame'[v] = frame[v]
      /\ frame'[w] = [frame[w] EXCEPT !.found = answers, !.pc = IF answers THEN "reset" ELSE "done"]
  BY ONLY w \in Workers, <1>1, <1>5, <1>6
<1>fields. /\ frame'[w].op = frame[w].op /\ frame'[w].pc = (IF answers THEN "reset" ELSE "done")
      /\ frame'[w].then = frame[w].then /\ frame'[w].found = answers
      /\ frame'[w].stopped = frame[w].stopped /\ frame'[w].read = frame[w].read
      /\ frame'[w].seen = frame[w].seen /\ frame'[w].verify = frame[w].verify
      /\ frame'[w].ok = frame[w].ok /\ frame'[w].came = frame[w].came
      /\ frame'[w].alone = frame[w].alone /\ frame'[w].intact = frame[w].intact
  BY <1>1, <1>7 DEF Frame, Record
<1>8. ASSUME frame[w].op \in Repairs, Sound(client, daemon, conf, tmp, cache, latest, frame[w])
      PROVE  Sound(client, daemon', conf', tmp', cache', latest', frame'[w])
  BY <1>1, <1>2, <1>3, <1>4, <1>8, <1>fields DEF Sound, Path, Owed, Seen, Way, Closing, Wanted, Effective
<1> QED
  BY <1>1, <1>2, <1>3, <1>4, <1>7, <1>8, <1>fields, GoesOn

\* A fix of a container.
LEMMA MovesStep ==
  ASSUME Inv, NEW w \in Workers, Moves(w)
  PROVE  Inv'
<1>1. /\ frame \in [Workers -> Frame(client)] /\ DaemonOK(client, daemon, conf) /\ cache \in Figures
      /\ frame[w] \in Frame(client) /\ tmp \in Settings \cup {None}
  BY TypeParts
<1>2. Busy(w) /\ frame[w].pc = "prefs" /\ frame[w].op = "fix" /\ client = "docker"
  BY <1>1 DEF Moves, Busy, Frame
<1>3. UNCHANGED <<client, conf, tmp, cache, latest>>
  BY DEF Moves
<1>4. PICK answers \in BOOLEAN, right \in BOOLEAN :
        /\ SetPreferences("moves", answers)
        /\ frame' = [frame EXCEPT ![w].ok = answers /\ right, ![w].then = "done",
                                  ![w].pc = IF answers /\ right THEN "status" ELSE "done"]
  BY DEF Moves
<1> DEFINE good == answers /\ right
           g == [frame[w] EXCEPT !.ok = good, !.then = "done", !.pc = IF good THEN "status" ELSE "done"]
<1>5. /\ good \in BOOLEAN
      /\ DaemonOK(client, daemon', conf') /\ daemon'.run = daemon.run
      /\ good => daemon.run /\ daemon'.live.moves
      /\ \A l : Kept(daemon, conf, l) => Kept(daemon', conf', l)
  BY <1>1, <1>2, <1>3, <1>4, PreferencesFacts
<1>6. frame' = [frame EXCEPT ![w] = g]
  BY <1>1, <1>4
<1> HIDE DEF good
<1>7. g \in Frame(client)
  <2>1. (IF good THEN "status" ELSE "done") \in Points \ {"write", "prefs"}
    BY <1>1, <1>5 DEF Points, Closing
  <2> QED
    BY <1>1, <1>5, <2>1 DEF Frame, Record
<1>8. /\ frame' \in [Workers -> Frame(client)] /\ \A v \in Workers \ {w} : frame'[v] = frame[v]
      /\ frame'[w] = [frame[w] EXCEPT !.ok = good, !.then = "done", !.pc = IF good THEN "status" ELSE "done"]
  BY ONLY w \in Workers, <1>1, <1>6, <1>7
<1>fields. /\ frame'[w].op = frame[w].op /\ frame'[w].pc = (IF good THEN "status" ELSE "done")
      /\ frame'[w].then = "done" /\ frame'[w].found = frame[w].found
      /\ frame'[w].stopped = frame[w].stopped /\ frame'[w].read = frame[w].read
      /\ frame'[w].seen = frame[w].seen /\ frame'[w].verify = frame[w].verify
      /\ frame'[w].ok = good /\ frame'[w].came = frame[w].came /\ frame'[w].alone = frame[w].alone
      /\ frame'[w].intact = frame[w].intact
  BY <1>1, <1>8 DEF Frame, Record
<1>9. ASSUME frame[w].op \in Repairs, Sound(client, daemon, conf, tmp, cache, latest, frame[w])
      PROVE  Sound(client, daemon', conf', tmp', cache', latest', frame'[w])
  BY <1>1, <1>2, <1>3, <1>5, <1>9, <1>fields DEF Sound, Path, Owed, Seen, Way, Closing, Wanted, Effective
<1> QED
  BY <1>1, <1>2, <1>3, <1>5, <1>8, <1>9, <1>fields, GoesOn

\* The other clients: the service is started.
LEMMA OtherStartStep ==
  ASSUME Inv, NEW w \in Workers, OtherStart(w)
  PROVE  Inv'
<1>1. /\ frame \in [Workers -> Frame(client)] /\ DaemonOK(client, daemon, conf) /\ cache \in Figures
      /\ frame[w] \in Frame(client) /\ tmp \in Settings \cup {None}
  BY TypeParts
<1>2. Busy(w) /\ frame[w].pc = "nq_start"
  BY DEF OtherStart, Busy
<1>3. UNCHANGED <<client, tmp, cache, latest>>
  BY DEF OtherStart
<1>4. /\ DaemonOK(client, daemon', conf')
      /\ client # "transmission" => \A l : Kept(daemon, conf, l) => Kept(daemon', conf', l)
  <2>1. CASE UNCHANGED <<daemon, conf>>
    BY <1>1, <2>1
  <2>2. CASE \E ok \in BOOLEAN : Effect("start", ok)
    BY <1>1, <2>2, EffectFacts
  <2> QED
    BY <2>1, <2>2 DEF OtherStart, service_action
<1>5. frame' = [frame EXCEPT ![w].pc = "nq_write"] /\ "nq_write" \in Points
  BY DEF OtherStart, Goto, Points
<1>6. /\ frame' \in [Workers -> Frame(client)] /\ \A v \in Workers \ {w} : frame'[v] = frame[v]
      /\ frame'[w] = [frame[w] EXCEPT !.pc = "nq_write"]
  BY <1>5, GotoFacts
<1>fields. /\ frame'[w].op = frame[w].op /\ frame'[w].pc = "nq_write" /\ frame'[w].then = frame[w].then
      /\ frame'[w].found = frame[w].found /\ frame'[w].stopped = frame[w].stopped
      /\ frame'[w].read = frame[w].read /\ frame'[w].seen = frame[w].seen
      /\ frame'[w].verify = frame[w].verify /\ frame'[w].ok = frame[w].ok
      /\ frame'[w].came = frame[w].came /\ frame'[w].alone = frame[w].alone
      /\ frame'[w].intact = frame[w].intact
  BY <1>1, <1>6 DEF Frame, Record
<1>7. ASSUME frame[w].op \in Repairs, Sound(client, daemon, conf, tmp, cache, latest, frame[w])
      PROVE  Sound(client, daemon', conf', tmp', cache', latest', frame'[w])
  BY <1>1, <1>2, <1>3, <1>4, <1>7, <1>fields DEF Sound, Path, Owed, Seen, Way, Closing
<1> QED
  BY <1>1, <1>2, <1>3, <1>4, <1>6, <1>7, <1>fields, GoesOn

\* The other clients: the file is written in place.
LEMMA OtherWriteStep ==
  ASSUME Inv, NEW w \in Workers, OtherWrite(w)
  PROVE  Inv'
<1>1. /\ frame \in [Workers -> Frame(client)] /\ DaemonOK(client, daemon, conf) /\ cache \in Figures
      /\ frame[w] \in Frame(client) /\ tmp \in Settings \cup {None}
  BY TypeParts
<1>2. Busy(w) /\ frame[w].pc = "nq_write"
  BY DEF OtherWrite, Busy
<1>3. UNCHANGED <<client, daemon, tmp, cache, latest>>
  BY DEF OtherWrite
<1>4. PICK p \in {"nq_restart", "done"} :
        /\ frame' = [frame EXCEPT ![w].pc = p]
        /\ IF p = "done" THEN conf' \in {conf, Blank} ELSE conf' = [conf EXCEPT !.limits = TRUE]
  <2>1. \/ conf' = [conf EXCEPT !.limits = TRUE] /\ frame' = [frame EXCEPT ![w].pc = "nq_restart"]
        \/ conf' \in {conf, Blank} /\ frame' = [frame EXCEPT ![w].pc = "done"]
    BY DEF OtherWrite, Goto, Unwritten
  <2> QED
    BY <2>1
<1>5. /\ conf' \in Settings
      /\ p = "nq_restart" => conf'.limits /\ conf'.own = conf.own
  BY <1>1, <1>4, BlankSettings DEF DaemonOK, Settings
<1>6. DaemonOK(client, daemon', conf') /\ p \in Points
  BY <1>1, <1>3, <1>5 DEF DaemonOK, Points, Closing
<1>7. /\ frame' \in [Workers -> Frame(client)] /\ \A v \in Workers \ {w} : frame'[v] = frame[v]
      /\ frame'[w] = [frame[w] EXCEPT !.pc = p]
  BY <1>4, <1>6, GotoFacts
<1>fields. /\ frame'[w].op = frame[w].op /\ frame'[w].pc = p /\ frame'[w].then = frame[w].then
      /\ frame'[w].found = frame[w].found /\ frame'[w].stopped = frame[w].stopped
      /\ frame'[w].read = frame[w].read /\ frame'[w].seen = frame[w].seen
      /\ frame'[w].verify = frame[w].verify /\ frame'[w].ok = frame[w].ok
      /\ frame'[w].came = frame[w].came /\ frame'[w].alone = frame[w].alone
      /\ frame'[w].intact = frame[w].intact
  BY <1>1, <1>7 DEF Frame, Record
<1>8. p = "nq_restart" => \A l : Kept(daemon, conf, l) => Kept(daemon', conf', l)
  BY <1>3, <1>5 DEF Kept, Effective
<1>9. ASSUME frame[w].op \in Repairs, Sound(client, daemon, conf, tmp, cache, latest, frame[w])
      PROVE  Sound(client, daemon', conf', tmp', cache', latest', frame'[w])
  BY <1>1, <1>2, <1>3, <1>4, <1>5, <1>8, <1>9, <1>fields DEF Sound, Path, Owed, Seen, Way, Closing
<1> QED
  BY <1>1, <1>2, <1>3, <1>6, <1>7, <1>9, <1>fields, GoesOn

\* The other clients: the restart puts the file of rtorrent in force.
LEMMA OtherRestartStep ==
  ASSUME Inv, NEW w \in Workers, OtherRestart(w)
  PROVE  Inv'
<1>1. /\ frame \in [Workers -> Frame(client)] /\ DaemonOK(client, daemon, conf) /\ cache \in Figures
      /\ frame[w] \in Frame(client) /\ tmp \in Settings \cup {None}
  BY TypeParts
<1>2. Busy(w) /\ frame[w].pc = "nq_restart"
  BY DEF OtherRestart, Busy
<1>3. UNCHANGED <<client, tmp, cache, latest>>
  BY DEF OtherRestart
<1>4. PICK ok \in BOOLEAN :
        /\ Effect("restart", ok)
        /\ frame' = [frame EXCEPT ![w].ok = TRUE, ![w].came = ok,
                        ![w].then = "done", ![w].pc = "status"]
  BY DEF OtherRestart, service_action
<1> DEFINE g == [frame[w] EXCEPT !.ok = TRUE, !.came = ok, !.then = "done", !.pc = "status"]
<1>5. /\ DaemonOK(client, daemon', conf')
      /\ client # "transmission" => \A l : Kept(daemon, conf, l) => Kept(daemon', conf', l)
      /\ client = "rtorrent" => conf' = conf /\ (ok => daemon'.run /\ daemon'.live = conf)
  BY <1>1, <1>4, EffectFacts
<1>6. g \in Frame(client)
  <2>1. "status" \in Points \ {"write", "prefs"}
    BY <1>1 DEF Points, Closing
  <2> QED
    BY <1>1, <2>1 DEF Frame, Record
<1>7. frame' = [frame EXCEPT ![w] = g]
  BY <1>1, <1>4
<1>8. /\ frame' \in [Workers -> Frame(client)] /\ \A v \in Workers \ {w} : frame'[v] = frame[v]
      /\ frame'[w] = [frame[w] EXCEPT !.ok = TRUE, !.came = ok, !.then = "done", !.pc = "status"]
  BY ONLY w \in Workers, <1>1, <1>6, <1>7
<1>fields. /\ frame'[w].op = frame[w].op /\ frame'[w].pc = "status" /\ frame'[w].then = "done"
      /\ frame'[w].found = frame[w].found /\ frame'[w].stopped = frame[w].stopped
      /\ frame'[w].read = frame[w].read /\ frame'[w].seen = frame[w].seen
      /\ frame'[w].verify = frame[w].verify /\ frame'[w].ok /\ frame'[w].came = ok
      /\ frame'[w].alone = frame[w].alone /\ frame'[w].intact = frame[w].intact
  BY <1>1, <1>8 DEF Frame, Record
<1>9. client \in {"qbittorrent", "docker", "transmission", "rtorrent"}
  BY DEF Inv, TypeInv
<1>10. ASSUME frame[w].op \in Repairs, Sound(client, daemon, conf, tmp, cache, latest, frame[w])
       PROVE  Sound(client, daemon', conf', tmp', cache', latest', frame'[w])
  BY <1>1, <1>2, <1>3, <1>5, <1>9, <1>10, <1>fields DEF Sound, Path, Owed, Seen, Way, Closing, Wanted, Effective
<1> QED
  BY <1>1, <1>2, <1>3, <1>5, <1>8, <1>10, <1>fields, GoesOn

-----------------------------------------------------------------------------
(* The invariant, and what it shows.                                         *)

\* In the beginning nobody is at work.
LEMMA InitInv ==
  ASSUME Init
  PROVE  Inv
<1>1. Idle \in Frame(client) /\ ~Idle.alone
  BY DEF Idle, Frame, Record, Ops, Points
<1>2. /\ frame \in [Workers -> Frame(client)] /\ \A w \in Workers : ~frame[w].alone
      /\ tmp \in Settings \cup {None} /\ cache \in Figures
  BY <1>1 DEF Init, Figures
<1>3. conf \in Settings /\ latest \in 0..MaxOwn
  <2>1. 1 \in 0..MaxOwn
    BY TorrentAssumption
  <2>2. conf \in [monitor : BOOLEAN, limits : {FALSE}, moves : {FALSE}, own : {1}] /\ latest = 1
    BY DEF Init
  <2> QED
    BY <2>1, <2>2 DEF Settings
<1>4. daemon = Down \/ daemon = [Started(conf) EXCEPT !.up = TRUE]
  BY DEF Init
<1>5. /\ daemon \in Daemon /\ ~daemon.dirty
      /\ daemon.run => daemon.live = conf
      /\ daemon.up => daemon.run
  <2>1. CASE daemon = Down
    BY <2>1, DownStarted
  <2>2. CASE daemon = [Started(conf) EXCEPT !.up = TRUE]
    <3>1. Started(conf) \in Daemon /\ Started(conf).run /\ ~Started(conf).dirty /\ Started(conf).live = conf
      BY <1>3, DownStarted
    <3> QED
      BY <2>2, <3>1 DEF Daemon
  <2> QED
    BY <1>4, <2>1, <2>2
<1>6. client \in {"qbittorrent", "docker", "transmission", "rtorrent"}
  BY TorrentAssumption DEF Init
<1>7. TypeInv
  BY <1>2, <1>3, <1>5, <1>6 DEF TypeInv
<1>8. AloneInv /\ SoundInv
  BY <1>2 DEF AloneInv, SoundInv
<1> QED
  BY <1>7, <1>8 DEF Inv

\* One step per action.
LEMMA NextInv ==
  ASSUME Inv, [Next]_vars
  PROVE  Inv'
<1>1. ASSUME NEW w \in Workers, Request(w)
      PROVE  Inv'
  <2>1. \/ Begin(w) \/ control_status_payload(w) \/ SnapshotCached(w)
        \/ fetch_maindata(w) \/ SnapshotStore(w) \/ execute_control_action(w)
        \/ shutdown_once(w) \/ Reset(w) \/ Answer(w)
    => Inv'
    BY BeginStep, StatusStep, CachedStep, FetchStep, StoreStep, ControlStep, QuitStep, ResetStep,
       AnswerStep
  <2>2. \/ Ensure(w) \/ Meta(w) \/ Stop(w) \/ Raises(w) \/ Read(w) \/ WriteTmp(w)
        \/ Replace(w) \/ StartAgain(w) \/ Except(w)
    => Inv'
    BY EnsureStep, MetaStep, StopStep, RaisesStep, ReadStep, WriteStep, ReplaceStep, StartAgainStep,
       ExceptStep
  <2>3. \/ Limits(w) \/ Moves(w) \/ OtherStart(w) \/ OtherWrite(w) \/ OtherRestart(w)
    => Inv'
    BY LimitsStep, MovesStep, OtherStartStep, OtherWriteStep, OtherRestartStep
  <2> QED
    BY <1>1, <2>1, <2>2, <2>3 DEF Request
<1>2. Serve \/ QuitsAtLast \/ Saves \/ UserSets \/ UserActs \/ AfterClawDies \/ FourSeconds => Inv'
  BY ServeStep, QuitsStep, SavesStep, UserSetsStep, UserActsStep, DiesStep, FourSecondsStep
<1>3. CASE UNCHANGED vars
  <2>1. UNCHANGED <<client, daemon, conf, tmp, cache, frame, latest>>
    BY <1>3 DEF vars
  <2> QED
    BY <2>1, TypeParts, GoesBeside
<1> QED
  BY <1>1, <1>2, <1>3 DEF Next

\* At every moment a repair that is alone may rely on what SoundInv says of the
\* point it is at; Owed, Seen and Way are the reasons of the three that follow.
THEOREM InvAlways == Spec => []Inv
<1>1. Init => Inv
  BY InitInv
<1>2. Inv /\ [Next]_vars => Inv'
  BY NextInv
<1> QED
  BY <1>1, <1>2, PTL DEF Spec

\* A repair that is done and met nobody.
LEMMA AtTheEnd ==
  ASSUME Inv, NEW w \in Workers, Alone(w, {"fix", "optimize"})
  PROVE  /\ Sound(client, daemon, conf, tmp, cache, latest, frame[w])
         /\ frame[w].pc = "done" /\ frame[w].op \in Repairs
BY DEF Inv, SoundInv, Alone, Repairs

\* A fix and an optimization leave a service they found running in operation,
\* however the file fails them, unless their last start of it fails or their
\* stop fails and yet stops it (app.py 10047-10051, 10139-10141, 10503-10505).
THEOREM ServiceComesBackAlways == Spec => []ServiceComesBack
<1>1. Inv => ServiceComesBack
  <2> SUFFICES ASSUME Inv, NEW w \in Workers, Alone(w, {"fix", "optimize"}),
                      frame[w].found, frame[w].came
               PROVE  daemon.run
    BY DEF ServiceComesBack
  <2> QED
    BY AtTheEnd DEF Sound, Owed
<1> QED
  BY <1>1, InvAlways, PTL

\* A repair that answers ok has put its settings in force, but for rtorrent when
\* its restart failed, and what the users had set before it, or set meanwhile,
\* is not lost (app.py 10111-10117, 9680-9683).
THEOREM SettingsInForceAlways == Spec => []SettingsInForce
<1>1. Inv => SettingsInForce
  <2> SUFFICES ASSUME Inv, NEW w \in Workers, Alone(w, {"fix", "optimize"}), frame[w].ok,
                      client # "transmission"
               PROVE  /\ client = "qbittorrent" => InForce.monitor
                      /\ client = "docker" /\ frame[w].op = "fix" => InForce.moves
                      /\ IF client = "rtorrent" THEN frame[w].came => InForce.limits
                         ELSE frame[w].op = "optimize" => InForce.limits
                      /\ frame[w].intact => InForce.own = latest
    BY DEF SettingsInForce
  <2>1. /\ Sound(client, daemon, conf, tmp, cache, latest, frame[w]) /\ frame[w].pc = "done"
        /\ InForce = Effective(daemon, conf)
    BY AtTheEnd DEF InForce, Effective
  <2>2. (client = "rtorrent" => frame[w].came) => Wanted(client, frame[w].op, Effective(daemon, conf))
    BY <2>1 DEF Sound, Way
  <2>3. frame[w].intact => Kept(daemon, conf, latest)
    BY <2>1 DEF Sound
  <2> QED
    BY <2>1, <2>2, <2>3 DEF Wanted, Kept
<1> QED
  BY <1>1, InvAlways, PTL

\* "Verified" is said only of a client that answers now, never from figures of
\* the time before the restart (app.py 10120-10121).
THEOREM VerifiedIsTrueAlways == Spec => []VerifiedIsTrue
<1>1. Inv => VerifiedIsTrue
  <2> SUFFICES ASSUME Inv, NEW w \in Workers, Alone(w, {"fix", "optimize"}), frame[w].verify
               PROVE  Reachable
    BY DEF VerifiedIsTrue
  <2> QED
    BY AtTheEnd DEF Sound, Seen, Serving, Reachable, candidate_base_urls_serve
<1> QED
  BY <1>1, InvAlways, PTL
==============================================================================
