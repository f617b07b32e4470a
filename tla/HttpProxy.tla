----------------------------- MODULE HttpProxy -----------------------------
(***************************************************************************)
(* The reloadable proxy settings of infra/httpproxy: the snapshot that     *)
(* every outbound request reads, Update, which the watch of the settings   *)
(* file and the application both call, and the watch itself.               *)
(*                                                                         *)
(* A file stands for what loadFile makes of it: Absent gives the settings  *)
(* of the environment, Bad an error (unreadable, unknown key, or settings  *)
(* that Validate rejects), and anything else its settings.  The directory  *)
(* of the file may be moved away and made again; the kernel may drop its   *)
(* watch then, or keep it on the old directory.  One transport, made or    *)
(* bound while all this runs, and one request on it, an arbitrary one, are *)
(* followed; the settings the request started with are the route of its    *)
(* connection.                                                             *)
(***************************************************************************)
EXTENDS Integers

CONSTANTS Settings,    \* settings that are valid
          Env,         \* those of the process environment
          Absent, Bad, \* a file that is missing, a file that is refused
          MaxChanges   \* bound on the changes of the file and its directory

ASSUME ProxyAssumption == /\ Env \in Settings
                          /\ Absent \notin Settings /\ Bad \notin Settings
                          /\ Absent # Bad
                          /\ MaxChanges \in Nat

Contents == Settings \cup {Absent, Bad}

VARIABLES file,      \* the settings file
          dir,       \* its directory is there
          watch,     \* the fsnotify watch: "live", "old" or "none"
          events,    \* events not received yet: "change", "dirgone"
          timer,     \* reload: running or fired
          dirStale,
          loop,      \* where watchFile is
          loaded,    \* what loadFile returned to it, until it is stored
          snap,      \* m.snap
          lock,      \* who holds updateMu: "none", "file" or "app"
          manual,    \* history: the application updated last
          tr,        \* the transport: where it comes from until its Proxy is set,
                     \* then "binding" or "hooking", then "registered"
          conn,      \* the connection: "none", "busy" or "idle"
          route,     \* its route; Env when there is none
          late,      \* history: it was busy when connections were last closed, or
                     \* began before the transport was registered
          changes

proxyVars == <<file, dir, watch, events, timer, dirStale, loop, loaded, snap,
               lock, manual, tr, conn, route, late, changes>>
fsVars == <<file, dir, watch, events, changes>>
loopVars == <<timer, dirStale, loop, loaded>>
connVars == <<tr, conn, route, late>>

\* NewManager, and the setup of watchFile: the first apply follows the watch.
ProxyInit ==
  /\ file \in Contents /\ dir = TRUE
  /\ watch = "live" /\ events = {}
  /\ timer = FALSE /\ dirStale = FALSE
  /\ loop = "load" /\ loaded = Env
  /\ snap = Env /\ lock = "none" /\ manual = FALSE
  /\ tr \in {"clone", "shared", "wrapped", "default"}
  /\ conn = "none" /\ route = Env /\ late = FALSE
  /\ changes = 0

-----------------------------------------------------------------------------
(* The file system.                                                        *)

Changed == changes < MaxChanges /\ changes' = changes + 1

WriteFile(c) ==
  /\ Changed
  /\ dir /\ file # c
  /\ file' = c
  /\ events' = IF watch = "live" THEN events \cup {"change"} ELSE events
  /\ UNCHANGED <<dir, watch, loopVars, snap, lock, manual, connVars>>

MoveDir ==
  /\ Changed
  /\ dir
  /\ dir' = FALSE /\ file' = Absent
  /\ IF watch = "live" THEN watch' \in {"old", "none"} /\ events' = events \cup {"dirgone"}
     ELSE UNCHANGED <<watch, events>>
  /\ UNCHANGED <<loopVars, snap, lock, manual, connVars>>

MakeDir(c) ==
  /\ Changed
  /\ ~dir
  /\ dir' = TRUE /\ file' = c
  /\ UNCHANGED <<watch, events, loopVars, snap, lock, manual, connVars>>

-----------------------------------------------------------------------------
(* watchFile: the select, and apply.                                       *)

\* An event arrives: a reload is due after the debounce.
Event(e) ==
  /\ loop = "select"
  /\ e \in events
  /\ events' = events \ {e}
  /\ dirStale' = (dirStale \/ e = "dirgone")
  /\ timer' = TRUE
  /\ UNCHANGED <<file, dir, watch, changes, loop, loaded, snap, lock, manual, connVars>>

Fire ==
  /\ loop = "select"
  /\ timer
  /\ timer' = FALSE
  /\ loop' = "load"
  /\ UNCHANGED <<fsVars, dirStale, loaded, snap, lock, manual, connVars>>

\* loadFile, and Validate at the head of Update: an error keeps the settings.
LoadFile ==
  /\ loop = "load"
  /\ loaded' = IF file \in Settings THEN file ELSE Env
  /\ loop' = IF file = Bad THEN "watch" ELSE "update"
  /\ UNCHANGED <<fsVars, timer, dirStale, snap, lock, manual, connVars>>

\* The watch is put back on the current directory when it was lost.  A
\* change may have come before it: a reload is due in any case.
Rewatch_Trusts ==
  /\ loop = "watch"
  /\ loop' = "select"
  /\ IF dirStale \/ watch = "none"
     THEN /\ watch' = IF dir THEN "live" ELSE "none"
          /\ timer' = (timer \/ ~dir)
          /\ dirStale' = (dirStale /\ ~dir)
     ELSE UNCHANGED <<watch, timer, dirStale>>
  /\ UNCHANGED <<file, dir, events, changes, loaded, snap, lock, manual, connVars>>

Rewatch ==
  /\ loop = "watch"
  /\ loop' = "select"
  /\ IF dirStale \/ watch = "none"
     THEN /\ watch' = IF dir THEN "live" ELSE "none"
          /\ timer' = TRUE
          /\ dirStale' = (dirStale /\ ~dir)
     ELSE UNCHANGED <<watch, timer, dirStale>>
  /\ UNCHANGED <<file, dir, events, changes, loaded, snap, lock, manual, connVars>>

-----------------------------------------------------------------------------
(* Update: the snapshot is stored, then the idle connections are closed.   *)

Store_Silent(by, c) ==
  /\ lock = "none"
  /\ snap' = c
  /\ lock' = "none"
  /\ manual' = (by = "app")
  /\ UNCHANGED connVars

Store(by, c) ==
  /\ lock = "none"
  /\ snap' = c
  /\ lock' = IF snap = c THEN "none" ELSE by
  /\ manual' = (by = "app")
  /\ UNCHANGED connVars

\* closeIdleConnections, on the transports that are registered.
CloseIdle(by) ==
  /\ lock = by
  /\ lock' = "none"
  /\ IF tr = "registered"
     THEN /\ conn' = IF conn = "idle" THEN "none" ELSE conn
          /\ route' = IF conn = "idle" THEN Env ELSE route
          /\ late' = (conn = "busy")
     ELSE UNCHANGED <<conn, route, late>>
  /\ UNCHANGED <<snap, manual, tr>>

FileStore ==
  /\ loop = "update"
  /\ Store("file", loaded)
  /\ loop' = IF lock' = "file" THEN "close" ELSE "watch"
  /\ loaded' = Env
  /\ UNCHANGED <<fsVars, timer, dirStale>>

FileClose ==
  /\ loop = "close"
  /\ CloseIdle("file")
  /\ loop' = "watch"
  /\ UNCHANGED <<fsVars, timer, dirStale, loaded>>

\* The application calls Update; an invalid c changes nothing.
AppStore(c) == Store("app", c) /\ UNCHANGED <<fsVars, loopVars>>

AppClose == CloseIdle("app") /\ UNCHANGED <<fsVars, loopVars>>

-----------------------------------------------------------------------------
(* Transports: the Proxy of each is set to the manager's, then the         *)
(* transport is registered.                                                *)

Bind(from, to) ==
  /\ tr = from
  /\ tr' = to
  /\ UNCHANGED <<fsVars, loopVars, snap, lock, manual, conn, route, late>>

\* A clone of the default transport, which nobody else has.
Transport == Bind("clone", "binding")

\* The one that Client makes on its first call, under sharedOnce.
sharedTransport == Bind("shared", "binding")

\* A caller's own, and the default one: they may be in use.
WrapTransport == Bind("wrapped", "hooking")
HookDefaultTransport == Bind("default", "hooking")

Register == Bind("binding", "registered") \/ Bind("hooking", "registered")

-----------------------------------------------------------------------------
(* Requests: the transport asks its Proxy for the route of each one and    *)
(* reuses idle connections of that route only.                             *)

StartRequest ==
  /\ tr \notin {"clone", "shared", "binding"}
  /\ route' = IF tr \in {"wrapped", "default"} THEN Env ELSE snap
  /\ conn = "none" \/ (conn = "idle" /\ route = route')
  /\ conn' = "busy"
  /\ late' = (tr # "registered")
  /\ UNCHANGED <<fsVars, loopVars, snap, lock, manual, tr>>

EndRequest ==
  /\ conn = "busy"
  /\ conn' = "idle"
  /\ UNCHANGED <<fsVars, loopVars, snap, lock, manual, tr, route, late>>

-----------------------------------------------------------------------------

LoopStep ==
  \/ \E e \in events : Event(e)
  \/ Fire \/ LoadFile \/ FileStore \/ FileClose \/ Rewatch

ProxyNext ==
  \/ LoopStep
  \/ AppClose
  \/ \E c \in Settings : AppStore(c)
  \/ \E c \in Contents : WriteFile(c) \/ MakeDir(c)
  \/ MoveDir
  \/ Transport \/ sharedTransport \/ WrapTransport \/ HookDefaultTransport \/ Register
  \/ StartRequest
  \/ EndRequest

ProxyFairness == WF_proxyVars(LoopStep) /\ WF_proxyVars(AppClose)

ProxySpec == ProxyInit /\ [][ProxyNext]_proxyVars /\ ProxyFairness

-----------------------------------------------------------------------------
(* Properties.                                                             *)

\* The watch, the lock and the loop are in their states; whoever is closing
\* connections holds the lock.
ProxyTypeOK ==
  /\ file \in Contents /\ snap \in Settings
  /\ watch \in {"live", "old", "none"} /\ events \subseteq {"change", "dirgone"}
  /\ loop \in {"select", "load", "update", "close", "watch"}
  /\ loop = "close" <=> lock = "file"
  /\ conn \in {"none", "busy", "idle"} /\ route \in Settings

\* WatchFile: a file that stops changing is applied in the end (or, if it is
\* refused, left alone), through every move of its directory, unless the
\* application set something else after it.
FileApplied ==
  <>[](manual \/ file = Bad \/ snap = (IF file = Absent THEN Env ELSE file))

\* Update: once it is over, an idle connection of a transport that the manager made
\* or bound has the current route, or comes from a request that was under way when
\* connections were closed or that began before the transport was registered.
IdleFollows == lock = "none" /\ conn = "idle" => route = snap \/ late
=============================================================================
