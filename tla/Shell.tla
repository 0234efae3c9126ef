-------------------------------- MODULE Shell --------------------------------
(***************************************************************************)
(* The main thread's loop: src/src/boot/main.c calls, every frame, the     *)
(* input poll (boot/input.c), the network bootstrap, the renderer          *)
(* (gui/gui.c) with the splash (gui/splash.c), the menu (gui/menu.c), the  *)
(* firmware's keyboard (gui/osk.c) and its network dialog (gui/netconf.c). *)
(* A frame is a sequence of steps that pc orders; the firmware moves its   *)
(* dialogs, and the user answers them, between two frames.                 *)
(*                                                                         *)
(* A list of results is abstracted to the source it was loaded from; its   *)
(* pages and rows, which may be none, are Browse's.  The player is         *)
(* PlayerControl's: here its screen is entered and left.                   *)
(***************************************************************************)
EXTENDS Integers

CONSTANTS
  Sites,         \* g_site_count: Favorites, Playlist, and the sites
  SourceDelay,   \* g_source_delay after Select, 15 in input.c
  SplashFrames   \* 30 in splash.c

ASSUME ShellAssumption ==
  /\ Sites \in Nat \ {0, 1}
  /\ SourceDelay \in Nat /\ SplashFrames \in Nat \ {0}

VARIABLES
  pc,            \* the step of the frame that comes next
  splash,        \* g_splash_frames while g_splash_active, else 0
  splash_error,  \* g_splash_error
  requested,     \* g_network_requested
  started,       \* g_main_state_started
  screen,        \* g_screen
  branch,        \* the branch of the poll's switch, taken once per frame
  rank,          \* the buttons of the branch already handled
  site,          \* g_site_sel
  list,          \* history: the source whose results are shown
  strayed,       \* history: they are of a folder entered from the playlist
  delay,         \* g_source_delay
  online,        \* g_net_online, the state of the connection cached per frame
  waiting,       \* g_network_page # 0: a search waits for the connection
  netconf,       \* g_netconf_active and the status of the firmware's dialog
  done,          \* g_netconf_done
  connected,     \* g_netconf_connected, while done
  phase,         \* g_menu_phase
  target,        \* g_menu_close_target, while the menu closes
  net_item,      \* a menu that opens or is open has a NetStatus item
  osk,           \* g_osk_active and the status of the firmware's keyboard
  osk_mode,      \* g_osk_mode: what the keyboard is for
  stale          \* history: since the keyboard that is open was opened, the
                 \* list was loaded or osk_mode set

net == <<netconf, done, connected>>
menu == <<phase, target, net_item>>
keyboard == <<osk, osk_mode>>
boot == <<splash, splash_error, requested, started>>
poll == <<branch, rank>>
rows == <<list, strayed, stale>>
vars == <<pc, boot, screen, poll, site, rows, delay, online, waiting, net,
          menu, keyboard>>

\* The two sources that need no connection and have no search text.
Favorites == 0
Playlist == 1
LocalSites == {Favorites, Playlist}

NoSite == -1
Modes == {"search", "url", "save", "rename"}

Init ==
  /\ pc = "poll"
  /\ splash = SplashFrames /\ splash_error \in BOOLEAN
  /\ requested = FALSE /\ started = FALSE
  /\ screen = "results" /\ branch = "none" /\ rank = 0
  /\ site = Favorites /\ list \in {Favorites, NoSite}
  /\ strayed = FALSE /\ stale = FALSE
  /\ delay = 0 /\ online = FALSE /\ waiting = FALSE
  /\ netconf = "none" /\ done = FALSE /\ connected = FALSE
  /\ phase = 0 /\ target = "results" /\ net_item = FALSE
  /\ osk = "none" /\ osk_mode = "search"

-----------------------------------------------------------------------------
(***************************************************************************)
(* What the handlers share.                                                *)
(***************************************************************************)

\* A keyboard is open whose text has not been read.
OskOpen == osk \notin {"none", "finished"}

\* A source's results replace those shown.
Show(s) == list' \in {s, NoSite} /\ stale' = OskOpen

\* A source's results are loaded, or it has none, or the request has failed.
Load(s) == Show(s) /\ strayed' = FALSE

\* go_netconf_open: the dialog opens unless one is open.
OpenNetconf ==
  /\ netconf = "none"
  /\ netconf' = "init" /\ done' = FALSE /\ connected' = FALSE

\* The source needs no connection, or there is one.
Dispatchable == site \in LocalSites \/ online

MutantSearchPage ==
  \/ Dispatchable /\ Load(site) /\ UNCHANGED <<waiting, net>>
  \/ ~Dispatchable /\ UNCHANGED rows /\ waiting' = TRUE /\ (OpenNetconf \/ UNCHANGED net)

\* search_page, except for the screen it shows, the list.  The search waits
\* only for a dialog that did open: the WLAN switch may be off, the modules
\* may fail to load, the firmware may refuse.
SearchPage ==
  \/ Dispatchable /\ Load(site) /\ UNCHANGED <<waiting, net>>
  \/ /\ ~Dispatchable /\ UNCHANGED rows
     /\ \/ OpenNetconf /\ waiting' = TRUE
        \/ waiting' = FALSE /\ UNCHANGED net

\* go_menu_close; the items are built anew when the menu opens again.
CloseMenu(t) ==
  phase' = 3 /\ target' = t /\ screen' = "menu" /\ net_item' = FALSE

\* go_osk_open, which fails when a keyboard is open or the firmware refuses.
OpenOsk(m) ==
  /\ osk_mode' = m
  /\ osk = "none" /\ osk' = "init"
  /\ stale' = FALSE

OskRefused(m) == osk_mode' = m /\ stale' = OskOpen /\ UNCHANGED osk

-----------------------------------------------------------------------------
(***************************************************************************)
(* go_input_poll.                                                          *)
(***************************************************************************)

\* The splash and the network dialog keep the poll from reading any button.
PollBlocked == splash > 0 \/ netconf # "none"

AfterPoll == IF requested THEN "boot" ELSE "render"

PollReturns ==
  /\ pc = "poll" /\ PollBlocked
  /\ pc' = AfterPoll
  /\ UNCHANGED <<boot, screen, poll, site, rows, delay, online, waiting, net,
                 menu, keyboard>>

\* A dialog has ended: the search that waited for it runs, if it connected.
PollResumes ==
  /\ pc = "poll" /\ ~PollBlocked
  /\ pc' = "delay"
  /\ IF waiting /\ done
     THEN /\ waiting' = FALSE /\ done' = FALSE /\ connected' = FALSE
          /\ IF connected
             THEN online' = TRUE /\ screen' = "results" /\ Load(site)
             ELSE UNCHANGED <<online, screen, rows>>
     ELSE UNCHANGED <<online, screen, rows, waiting, done, connected>>
  /\ UNCHANGED <<boot, poll, site, delay, netconf, menu, keyboard>>

\* The branch of a screen: of the menu only while it opens or is open.
Branch(s) ==
  CASE s \in {"results", "sitelist", "player"} -> s
    [] s = "menu" /\ phase = 1 -> "opening"
    [] s = "menu" /\ phase = 2 -> "menu"
    [] OTHER -> "none"

MutantCountDown == delay - 1

\* The frames left until the search of a changed source.
CountDown == IF delay > 0 THEN delay - 1 ELSE 0

\* The search of a changed source, whatever the screen is by now; then the
\* switch on the screen.
PollDelay ==
  /\ pc = "delay"
  /\ pc' = "buttons"
  /\ delay' = CountDown
  /\ IF delay = 1
     THEN SearchPage /\ screen' = "results"
     ELSE UNCHANGED <<rows, waiting, net, screen>>
  /\ branch' = Branch(screen')
  /\ UNCHANGED <<boot, rank, site, online, menu, keyboard>>

\* The button handled r-th in branch b is pressed; those before it are done.
Pressed(b, r) ==
  /\ pc = "buttons" /\ branch = b /\ rank < r
  /\ rank' = r
  /\ UNCHANGED <<pc, branch, boot, online>>

PollEnds ==
  /\ pc = "buttons"
  /\ pc' = AfterPoll /\ branch' = "none" /\ rank' = 0
  /\ UNCHANGED <<boot, screen, site, rows, delay, online, waiting, net, menu,
                 keyboard>>

\* Select empties the list at once.
EmptyList == list' = NoSite /\ strayed' = FALSE /\ stale' = OskOpen

Select ==
  /\ Pressed("results", 1)
  /\ site' = (site + 1) % Sites
  /\ EmptyList
  /\ delay' = SourceDelay
  /\ UNCHANGED <<screen, waiting, net, menu, keyboard>>

\* L or R where the list has a page before or after, also if this one has no
\* row: a site may answer with counts alone, a folder have more than it shows.
Page ==
  /\ \E r \in {2, 3} : Pressed("results", r)
  /\ list # NoSite
  /\ SearchPage /\ screen' = "results"
  /\ UNCHANGED <<site, delay, menu, keyboard>>

\* Circle on a folder or on "..": load_favorites, also from the playlist.
EnterFolder ==
  /\ Pressed("results", 4) /\ list \in LocalSites
  /\ Show(Favorites)
  /\ strayed' = (site # Favorites)
  /\ UNCHANGED <<screen, site, delay, waiting, net, menu, keyboard>>

\* Circle on a feed, whose items replace the rows of the list it is in.
EnterFeed ==
  /\ Pressed("results", 4) /\ list \in LocalSites
  /\ Show(list) /\ UNCHANGED strayed
  /\ UNCHANGED <<screen, site, delay, waiting, net, menu, keyboard>>

\* Circle on a video that starts.
Watch ==
  /\ Pressed("results", 4) /\ list # NoSite
  /\ screen' = "player"
  /\ UNCHANGED <<site, rows, delay, waiting, net, menu, keyboard>>

MutantSearchText ==
  /\ Pressed("results", 5) /\ site \notin LocalSites
  /\ screen' = "osk" /\ (OpenOsk("search") \/ OskRefused("search"))
  /\ UNCHANGED <<site, list, strayed, delay, waiting, net, menu>>

\* Cross opens the keyboard for the source's search text.
SearchText ==
  /\ Pressed("results", 5) /\ site \notin LocalSites
  /\ \/ OpenOsk("search") /\ screen' = "osk"
     \/ OskRefused("search") /\ UNCHANGED screen
  /\ UNCHANGED <<site, list, strayed, delay, waiting, net, menu>>

\* Triangle: go_menu_build.
OpenMenu ==
  /\ Pressed("results", 6)
  /\ phase' = 1 /\ target' = "results" /\ net_item' = online
  /\ screen' = "menu"
  /\ UNCHANGED <<site, rows, delay, waiting, net, keyboard>>

\* Square goes round the three panes, Cross leaves one for the list.
Panes ==
  /\ \/ Pressed("results", 7) /\ screen' = "sitelist"
     \/ Pressed("sitelist", 1) /\ screen' = "results"
     \/ Pressed("sitelist", 2) /\ screen' = "player"
     \/ Pressed("player", 1) /\ screen' = "results"
  /\ UNCHANGED <<site, rows, delay, waiting, net, menu, keyboard>>

\* Cross or Triangle in the menu.
LeaveMenu ==
  /\ Pressed("opening", 1) \/ Pressed("menu", 1)
  /\ CloseMenu("results")
  /\ UNCHANGED <<site, rows, delay, waiting, net, keyboard>>

-----------------------------------------------------------------------------
(***************************************************************************)
(* Circle on an item of the menu.                                          *)
(***************************************************************************)
Item == Pressed("menu", 2)

\* The menu of the playlist has items for the screen and the playlist only.
FullMenu == site # Playlist

\* A tag of the row is searched for.
TagSearch ==
  /\ Item /\ FullMenu /\ list # NoSite
  /\ SearchPage
  /\ CloseMenu("results")
  /\ UNCHANGED <<site, delay, keyboard>>

\* Site, or an item of the playlist, whose list is not loaded again.
PlainItem ==
  /\ Item /\ CloseMenu("results")
  /\ UNCHANGED <<site, rows, delay, waiting, net, keyboard>>

\* OpenURL, Save and Rename ask for a text; refused, the menu stays.
TextItem(m) ==
  /\ Item
  /\ (m = "save" => FullMenu /\ list # NoSite)
  /\ (m = "rename" => FullMenu /\ list = Favorites)
  /\ \/ OpenOsk(m) /\ CloseMenu("osk")
     \/ OskRefused(m) /\ UNCHANGED <<screen, menu>>
  /\ UNCHANGED <<site, list, strayed, delay, waiting, net>>

NetStatus ==
  /\ Item /\ net_item
  /\ OpenNetconf \/ UNCHANGED net
  /\ CloseMenu("results")
  /\ UNCHANGED <<site, rows, delay, waiting, keyboard>>

\* Play playlist, when its first video starts.
PlayPlaylist ==
  /\ Item /\ FullMenu /\ CloseMenu("player")
  /\ UNCHANGED <<site, rows, delay, waiting, net, keyboard>>

\* Delete a file of Favorites: the folder is loaded again.
Delete ==
  /\ Item /\ FullMenu /\ list = Favorites
  /\ Load(Favorites)
  /\ CloseMenu("results")
  /\ UNCHANGED <<site, delay, waiting, net, keyboard>>

Buttons ==
  \/ Select \/ Page \/ EnterFolder \/ EnterFeed \/ Watch \/ SearchText \/ OpenMenu \/ Panes
  \/ LeaveMenu \/ TagSearch \/ PlainItem \/ NetStatus \/ PlayPlaylist \/ Delete
  \/ \E m \in Modes \ {"search"} : TextItem(m)

-----------------------------------------------------------------------------
(***************************************************************************)
(* The rest of the frame.                                                  *)
(***************************************************************************)

\* The bootstrap's connection, asked for by the end of the splash.
Bootstrap ==
  /\ pc = "boot"
  /\ pc' = "render"
  /\ requested' = FALSE
  /\ OpenNetconf \/ UNCHANGED net
  /\ UNCHANGED <<splash, splash_error, started, screen, poll, site, rows, delay,
                 online, waiting, menu, keyboard>>

\* The splash draws itself; one with an error stays for ever.
RenderSplash ==
  /\ pc = "render" /\ splash > 0
  /\ pc' = "tick"
  /\ splash' = IF splash_error THEN splash ELSE splash - 1
  /\ requested' = (splash' = 0)
  /\ UNCHANGED <<splash_error, started, screen, poll, site, rows, delay, online,
                 waiting, net, menu, keyboard>>

MutantSlideMenu ==
  \/ phase = 3 /\ phase' = 0 /\ UNCHANGED <<screen, target>>
  \/ phase = 1 /\ phase' = 2 /\ UNCHANGED <<screen, target>>
  \/ UNCHANGED <<phase, screen, target>>

\* render_menu: the menu slides in or out by some pixels; once it is out, the
\* screen it was closed for follows.
SlideMenu ==
  \/ phase = 3 /\ phase' = 0 /\ screen' = target /\ target' = "results"
  \/ phase = 1 /\ phase' = 2 /\ UNCHANGED <<screen, target>>
  \/ UNCHANGED <<phase, screen, target>>

\* Nothing is drawn under the network dialog.
Render ==
  /\ pc = "render" /\ splash = 0
  /\ IF screen = "menu" /\ netconf = "none"
     THEN SlideMenu
     ELSE UNCHANGED <<phase, target, screen>>
  /\ pc' = IF screen' = "osk" THEN "keyboard" ELSE "netconf"
  /\ UNCHANGED <<boot, poll, site, rows, delay, online, waiting, net, net_item, keyboard>>

-----------------------------------------------------------------------------
(***************************************************************************)
(* The firmware's keyboard: go_osk_update, on its own screen only, and     *)
(* what the renderer does with its result.                                 *)
(***************************************************************************)

\* The text was not changed: whatever it was for is dropped.
OskCancelled ==
  /\ screen' = "results" /\ osk_mode' = "search"
  /\ UNCHANGED <<list, strayed>> /\ stale' = FALSE

\* A changed text searches, opens a video, names a save or renames a file.
OskDone ==
  /\ osk_mode' = "search"
  /\ screen' \in (IF osk_mode = "url" THEN {"player", "results"} ELSE {"results"})
  /\ CASE osk_mode = "search" -> Load(site)
       [] osk_mode = "rename" /\ list \in LocalSites -> Load(Favorites)
       [] OTHER -> UNCHANGED <<list, strayed>> /\ stale' = FALSE

\* A keyboard screen without a keyboard: the source is searched for "test",
\* or what a text was wanted for is forgotten.
OskIdle ==
  /\ screen' = "results" /\ osk_mode' = "search"
  /\ IF osk_mode = "search" THEN Load(site) ELSE UNCHANGED rows

MutantShutOsk == osk

\* At its end the keyboard is told to shut down.
ShutOsk == IF osk = "quit" THEN "stopping" ELSE osk

\* go_osk_update, and what the renderer does with its result.
UpdateOsk ==
  /\ pc = "keyboard"
  /\ pc' = "netconf"
  /\ CASE osk = "finished" -> osk' = "none" /\ (OskCancelled \/ OskDone)
       [] osk = "none" -> OskIdle /\ UNCHANGED osk
       [] OTHER -> osk' = ShutOsk /\ UNCHANGED <<screen, rows, osk_mode>>
  /\ UNCHANGED <<boot, poll, site, delay, online, waiting, net, menu>>

-----------------------------------------------------------------------------
(***************************************************************************)
(* The firmware's network dialog: go_netconf_update, and the first end of  *)
(* one, which the renderer takes for the bootstrap's.                      *)
(***************************************************************************)
MutantHasEnded == netconf = "finished"

\* FINISHED, or NONE once the shutdown was asked for.
HasEnded == netconf \in {"finished", "closed"}

NetconfRuns ==
  /\ pc = "netconf" /\ ~HasEnded
  /\ netconf' = IF netconf = "quit" THEN "stopping" ELSE netconf
  /\ pc' = IF done /\ ~started THEN "start" ELSE "tick"
  /\ UNCHANGED <<boot, screen, poll, site, rows, delay, online, waiting, done,
                 connected, menu, keyboard>>

NetconfEnds ==
  /\ pc = "netconf" /\ HasEnded
  /\ netconf' = "none" /\ done' = TRUE /\ connected' \in BOOLEAN
  /\ pc' = IF started THEN "tick" ELSE "start"
  /\ UNCHANGED <<boot, screen, poll, site, rows, delay, online, waiting, menu,
                 keyboard>>

MutantMainSite == UNCHANGED site

\* The main state begins with source zero.
MainSite == site' = Favorites

\* The main state starts: source zero is searched, when connected.
StartMain ==
  /\ pc = "start"
  /\ started' = TRUE
  /\ screen' = "results"
  /\ IF connected THEN MainSite /\ Load(Favorites) ELSE UNCHANGED <<site, rows>>
  /\ pc' = "tick"
  /\ UNCHANGED <<splash, splash_error, requested, poll, delay, online, waiting,
                 net, menu, keyboard>>

\* go_network_tick: the connection comes and goes by itself.
Tick ==
  /\ pc = "tick"
  /\ online' \in BOOLEAN
  /\ pc' = "poll"
  /\ UNCHANGED <<boot, screen, poll, site, rows, delay, waiting, net, menu,
                 keyboard>>

Frame ==
  \/ PollReturns \/ PollResumes \/ PollDelay \/ Buttons \/ PollEnds
  \/ Bootstrap \/ RenderSplash \/ Render
  \/ UpdateOsk \/ NetconfRuns \/ NetconfEnds \/ StartMain \/ Tick

-----------------------------------------------------------------------------
(***************************************************************************)
(* The firmware, and the user's answers.  A dialog's status is read once   *)
(* per frame, so that its moves are as well taken all at the end of the    *)
(* frame, where the main thread waits for the vertical blank.              *)
(***************************************************************************)
Away == <<pc, boot, screen, poll, site, rows, delay, online, waiting, done,
          connected, menu, osk_mode>>

OskMoves ==
  /\ pc = "tick"
  /\ \/ osk = "init" /\ osk' = "visible"
     \/ osk = "visible" /\ osk' = "quit"
     \/ osk = "stopping" /\ osk' = "finished"
  /\ UNCHANGED <<Away, netconf>>

\* The network dialog may be gone before its end was read.
NetconfMoves ==
  /\ pc = "tick"
  /\ \/ netconf = "init" /\ netconf' = "visible"
     \/ netconf = "visible" /\ netconf' = "quit"
     \/ netconf = "stopping" /\ netconf' = "finished"
     \/ netconf = "finished" /\ netconf' = "closed"
  /\ UNCHANGED <<Away, osk>>

Next == Frame \/ OskMoves \/ NetconfMoves

Spec == Init /\ [][Next]_vars

(***************************************************************************)
(* The loop never stops; the firmware gets on, and the user answers a      *)
(* dialog.  Nobody ever has to press a button.                             *)
(***************************************************************************)
Fairness ==
  /\ WF_vars(Frame)
  /\ SF_vars(OskMoves)
  /\ SF_vars(NetconfMoves)

FairSpec == Spec /\ Fairness
-----------------------------------------------------------------------------
(***************************************************************************)
(* What must hold.                                                         *)
(***************************************************************************)
Screens == {"results", "sitelist", "player", "menu", "osk"}

\* Every variable has its type (gotube.h, and the statics of input.c, osk.c,
\* netconf.c, splash.c, gui.c and menu.c).
TypeOK ==
  /\ pc \in {"poll", "delay", "buttons", "boot", "render", "keyboard",
             "netconf", "start", "tick"}
  /\ splash \in 0 .. SplashFrames /\ splash_error \in BOOLEAN
  /\ requested \in BOOLEAN /\ started \in BOOLEAN
  /\ screen \in Screens
  /\ branch \in {"none", "results", "sitelist", "player", "opening", "menu"}
  /\ rank \in 0 .. 7
  /\ site \in 0 .. Sites - 1 /\ list \in (0 .. Sites - 1) \union {NoSite}
  /\ strayed \in BOOLEAN /\ stale \in BOOLEAN
  /\ delay \in 0 .. SourceDelay /\ online \in BOOLEAN /\ waiting \in BOOLEAN
  /\ netconf \in {"none", "init", "visible", "quit", "stopping", "finished", "closed"}
  /\ done \in BOOLEAN /\ connected \in BOOLEAN
  /\ phase \in 0 .. 3 /\ target \in {"results", "player", "osk"}
  /\ net_item \in BOOLEAN
  /\ osk \in {"none", "init", "visible", "quit", "stopping", "finished"}
  /\ osk_mode \in Modes

\* Whatever takes the menu's screen away and gives it back, a menu that is
\* shown is opening, open or closing: in phase 0 it would answer no button.
MenuAlive == screen = "menu" => phase \in {1, 2, 3}

\* The keyboard's screen is on, or the menu is sliding out to it.
KeyboardDue ==
  screen = "osk" \/ (screen = "menu" /\ phase = 3 /\ target = "osk")

\* A keyboard on its screen is open, serves what it was opened for, and the
\* row it was opened on is still the list's: the search for "test" of
\* gui.c:938 never runs, and no text renames or saves another row.
KeyboardKept == KeyboardDue => osk # "none" /\ ~stale

\* A search that waits for the connection has a dialog to wait for, open or
\* ended: no failure to open one leaves a search that runs much later.
WaitsForDialog == waiting => netconf # "none" \/ done

\* The results shown are those of the source the header names, though a search
\* may be delayed, wait for a dialog, be refused, or be replaced by the start
\* of the main state.  A folder entered from the playlist is the one exception,
\* local.c:289: Favorites' files are then shown under the playlist's name, but
\* under no other, and not beyond the next search or change of the source.
ListIsOfSource ==
  IF strayed THEN site = Playlist /\ list \in {Favorites, NoSite}
             ELSE list # NoSite => list = site

\* Buttons are read again and again, whatever dialogs open: no network dialog
\* blocks the poll for ever.  A splash with an error does.
InputReturns == splash_error \/ []<>(pc = "buttons")

\* A keyboard that is shown goes away, with its text or without.
KeyboardLeaves == screen = "osk" ~> screen # "osk"

\* input.c:137, "Transitions are handled in go_gui_render": the keyboard's
\* screen is left only by the renderer's update of the keyboard.
OskLeftByRender == [][screen = "osk" /\ screen' # "osk" => pc = "keyboard"]_vars
=============================================================================
