---------------------------- MODULE ShellProofs ----------------------------
(***************************************************************************)
(* Proofs about Shell, for any number of sources beside Favorites and the  *)
(* playlist, and any delays.                                               *)
(***************************************************************************)
EXTENDS Shell, TLAPS

USE DEF net, menu, keyboard, boot, poll, rows

\* What the buttons handled so far have left of the screen the poll's switch
\* was taken for.
ScreenOfBranch ==
  /\ pc # "buttons" => rank = 0
  /\ pc = "buttons" /\ branch = "results" /\ rank < 4 => screen = "results"
  /\ pc = "buttons" /\ branch = "results" /\ rank < 5 => screen \in {"results", "player"}
  /\ pc = "buttons" /\ branch = "menu" /\ rank < 2 =>
       screen = "menu" /\ (phase = 2 \/ (phase = 3 /\ target = "results"))

\* TypeOK in two halves, since the provers take Booleans apart from numbers.
Flags ==
  /\ splash_error \in BOOLEAN /\ requested \in BOOLEAN /\ started \in BOOLEAN
  /\ strayed \in BOOLEAN /\ stale \in BOOLEAN
  /\ online \in BOOLEAN /\ waiting \in BOOLEAN
  /\ done \in BOOLEAN /\ connected \in BOOLEAN /\ net_item \in BOOLEAN

Values ==
  /\ pc \in {"poll", "delay", "buttons", "boot", "render", "keyboard",
             "netconf", "start", "tick"}
  /\ splash \in 0 .. SplashFrames
  /\ screen \in Screens
  /\ branch \in {"none", "results", "sitelist", "player", "opening", "menu"}
  /\ rank \in 0 .. 7
  /\ site \in 0 .. Sites - 1 /\ list \in (0 .. Sites - 1) \union {NoSite}
  /\ delay \in 0 .. SourceDelay
  /\ netconf \in {"none", "init", "visible", "quit", "stopping", "finished", "closed"}
  /\ phase \in 0 .. 3 /\ target \in {"results", "player", "osk"}
  /\ osk \in {"none", "init", "visible", "quit", "stopping", "finished"}
  /\ osk_mode \in Modes

\* A file is renamed by a keyboard on its screen, and the keyboard was opened on
\* Favorites' menu: the folder that is loaded after it is of that source.
RenamesInFavorites ==
  /\ pc = "keyboard" => screen = "osk"
  /\ KeyboardDue /\ osk_mode = "rename" => site = Favorites

IInv ==
  /\ TypeOK /\ ScreenOfBranch /\ RenamesInFavorites
  /\ MenuAlive /\ KeyboardKept /\ WaitsForDialog /\ ListIsOfSource

-----------------------------------------------------------------------------
\* A keyboard is open or not.
LEMMA OskFlag == OskOpen \in BOOLEAN
BY DEF OskOpen

\* The halves make the whole.
LEMMA TypeHalves == TypeOK <=> Flags /\ Values
BY DEF TypeOK, Flags, Values

\* The program starts on the list, without a dialog.
LEMMA InvInit == Init => IInv
<1> SUFFICES ASSUME Init PROVE IInv
  OBVIOUS
<1> USE DEF Init, NoSite, Favorites
<1>1. TypeOK
  <2>1. Flags
    BY DEF Flags
  <2>2. Values
    BY ShellAssumption DEF Values, Screens, Modes, ShellAssumption
  <2> QED
    BY <2>1, <2>2, TypeHalves
<1>2. ScreenOfBranch
  BY DEF ScreenOfBranch
<1>3. MenuAlive /\ WaitsForDialog
  BY DEF MenuAlive, WaitsForDialog
<1>4. KeyboardKept
  BY DEF KeyboardKept, KeyboardDue
<1>5. ListIsOfSource
  BY DEF ListIsOfSource
<1>6. RenamesInFavorites
  BY DEF RenamesInFavorites
<1> QED
  BY <1>1, <1>2, <1>3, <1>4, <1>5, <1>6 DEF IInv

\* Every step keeps the Boolean variables Boolean.
LEMMA FlagsStep == Flags /\ [Next]_vars => Flags'
<1> SUFFICES ASSUME Flags, [Next]_vars PROVE Flags'
  OBVIOUS
<1> USE DEF Flags
<1>1. CASE PollReturns
  BY <1>1 DEF PollReturns, AfterPoll
<1>2. CASE PollResumes
  BY <1>2, OskFlag DEF PollResumes, Load, Show
<1>3. CASE PollDelay
  BY <1>3, OskFlag DEF PollDelay, CountDown, Branch, SearchPage, Load, Show,
     OpenNetconf, Dispatchable
<1>4. CASE Select
  BY <1>4, OskFlag DEF Select, Pressed, EmptyList
<1>5. CASE Page
  BY <1>5, OskFlag DEF Page, Pressed, SearchPage, Load, Show, OpenNetconf
<1>6. CASE EnterFolder
  BY <1>6, OskFlag DEF EnterFolder, Pressed, Show
<1>7. CASE EnterFeed
  BY <1>7, OskFlag DEF EnterFeed, Pressed, Show
<1>8. CASE Watch
  BY <1>8 DEF Watch, Pressed
<1>9. CASE SearchText
  BY <1>9, OskFlag DEF SearchText, Pressed, OpenOsk, OskRefused
<1>10. CASE OpenMenu
  BY <1>10 DEF OpenMenu, Pressed
<1>11. CASE Panes
  BY <1>11 DEF Panes, Pressed
<1>12. CASE LeaveMenu
  BY <1>12 DEF LeaveMenu, Pressed, CloseMenu
<1>13. CASE TagSearch
  BY <1>13, OskFlag DEF TagSearch, Item, Pressed, CloseMenu, SearchPage,
     Load, Show, OpenNetconf
<1>14. CASE PlainItem
  BY <1>14 DEF PlainItem, Item, Pressed, CloseMenu
<1>15. CASE NetStatus
  BY <1>15 DEF NetStatus, Item, Pressed, CloseMenu, OpenNetconf
<1>16. CASE PlayPlaylist
  BY <1>16 DEF PlayPlaylist, Item, Pressed, CloseMenu
<1>17. CASE Delete
  BY <1>17, OskFlag DEF Delete, Item, Pressed, CloseMenu, Load, Show
<1>18. ASSUME NEW m \in Modes \ {"search"}, TextItem(m) PROVE Flags'
  BY <1>18, OskFlag DEF TextItem, Item, Pressed, CloseMenu, OpenOsk,
     OskRefused
<1>19. CASE PollEnds
  BY <1>19 DEF PollEnds, AfterPoll
<1>20. CASE Bootstrap
  BY <1>20 DEF Bootstrap, OpenNetconf
<1>21. CASE RenderSplash
  BY <1>21 DEF RenderSplash
<1>22. CASE Render
  BY <1>22 DEF Render, SlideMenu
<1>23. CASE UpdateOsk
  BY <1>23, OskFlag DEF UpdateOsk, OskCancelled, OskDone, OskIdle, ShutOsk,
     Load, Show
<1>24. CASE NetconfRuns
  BY <1>24 DEF NetconfRuns
<1>25. CASE NetconfEnds
  BY <1>25 DEF NetconfEnds
<1>26. CASE StartMain
  BY <1>26, OskFlag DEF StartMain, MainSite, Load, Show
<1>27. CASE Tick
  BY <1>27 DEF Tick
<1>28. CASE OskMoves
  BY <1>28 DEF OskMoves, Away
<1>29. CASE NetconfMoves
  BY <1>29 DEF NetconfMoves, Away
<1>30. CASE UNCHANGED vars
  BY <1>30 DEF vars
<1> QED
  BY <1>1, <1>2, <1>3, <1>4, <1>5, <1>6, <1>7, <1>8, <1>9, <1>10, <1>11,
     <1>12, <1>13, <1>14, <1>15, <1>16, <1>17, <1>18, <1>19, <1>20, <1>21,
     <1>22, <1>23, <1>24, <1>25, <1>26, <1>27, <1>28, <1>29, <1>30
  DEF Next, Frame, Buttons

\* Every step keeps the other variables' types.
LEMMA ValuesStep == Values /\ [Next]_vars => Values'
<1> SUFFICES ASSUME Values, [Next]_vars PROVE Values'
  OBVIOUS
<1> USE DEF Values, Screens, Modes, NoSite, Favorites, ShellAssumption
<1>1. CASE PollReturns
  BY <1>1, ShellAssumption DEF PollReturns, AfterPoll
<1>2. CASE PollResumes
  BY <1>2, ShellAssumption DEF PollResumes, Load, Show
<1>3. CASE PollDelay
  BY <1>3, ShellAssumption DEF PollDelay, CountDown, Branch, SearchPage,
     Load, Show, OpenNetconf
<1>4. CASE Select
  BY <1>4, ShellAssumption DEF Select, Pressed, EmptyList
<1>5. CASE Page
  BY <1>5, ShellAssumption DEF Page, Pressed, SearchPage, Load, Show, OpenNetconf
<1>6. CASE EnterFolder
  BY <1>6, ShellAssumption DEF EnterFolder, Pressed, Show
<1>7. CASE EnterFeed
  BY <1>7, ShellAssumption DEF EnterFeed, Pressed, Show
<1>8. CASE Watch
  BY <1>8, ShellAssumption DEF Watch, Pressed
<1>9. CASE SearchText
  BY <1>9, ShellAssumption DEF SearchText, Pressed, OpenOsk, OskRefused
<1>10. CASE OpenMenu
  BY <1>10, ShellAssumption DEF OpenMenu, Pressed
<1>11. CASE Panes
  BY <1>11, ShellAssumption DEF Panes, Pressed
<1>12. CASE LeaveMenu
  BY <1>12, ShellAssumption DEF LeaveMenu, Pressed, CloseMenu
<1>13. CASE TagSearch
  BY <1>13, ShellAssumption DEF TagSearch, Item, Pressed, CloseMenu,
     SearchPage, Load, Show, OpenNetconf
<1>14. CASE PlainItem
  BY <1>14, ShellAssumption DEF PlainItem, Item, Pressed, CloseMenu
<1>15. CASE NetStatus
  BY <1>15, ShellAssumption DEF NetStatus, Item, Pressed, CloseMenu,
     OpenNetconf
<1>16. CASE PlayPlaylist
  BY <1>16, ShellAssumption DEF PlayPlaylist, Item, Pressed, CloseMenu
<1>17. CASE Delete
  BY <1>17, ShellAssumption DEF Delete, Item, Pressed, CloseMenu, Load, Show
<1>18. ASSUME NEW m \in Modes \ {"search"}, TextItem(m) PROVE Values'
  BY <1>18, ShellAssumption DEF TextItem, Item, Pressed, CloseMenu,
     OpenOsk, OskRefused
<1>19. CASE PollEnds
  BY <1>19, ShellAssumption DEF PollEnds, AfterPoll
<1>20. CASE Bootstrap
  BY <1>20, ShellAssumption DEF Bootstrap, OpenNetconf
<1>21. CASE RenderSplash
  BY <1>21, ShellAssumption DEF RenderSplash
<1>22. CASE Render
  BY <1>22, ShellAssumption DEF Render, SlideMenu
<1>23. CASE UpdateOsk
  BY <1>23, ShellAssumption DEF UpdateOsk, OskCancelled, OskDone, OskIdle,
     ShutOsk, Load, Show
<1>24. CASE NetconfRuns
  BY <1>24, ShellAssumption DEF NetconfRuns
<1>25. CASE NetconfEnds
  BY <1>25, ShellAssumption DEF NetconfEnds
<1>26. CASE StartMain
  BY <1>26, ShellAssumption DEF StartMain, MainSite, Load, Show
<1>27. CASE Tick
  BY <1>27, ShellAssumption DEF Tick
<1>28. CASE OskMoves
  BY <1>28, ShellAssumption DEF OskMoves, Away
<1>29. CASE NetconfMoves
  BY <1>29, ShellAssumption DEF NetconfMoves, Away
<1>30. CASE UNCHANGED vars
  BY <1>30 DEF vars
<1> QED
  BY <1>1, <1>2, <1>3, <1>4, <1>5, <1>6, <1>7, <1>8, <1>9, <1>10, <1>11,
     <1>12, <1>13, <1>14, <1>15, <1>16, <1>17, <1>18, <1>19, <1>20, <1>21,
     <1>22, <1>23, <1>24, <1>25, <1>26, <1>27, <1>28, <1>29, <1>30
  DEF Next, Frame, Buttons

\* Every step keeps the types.
LEMMA TypeStep == TypeOK /\ [Next]_vars => TypeOK'
BY FlagsStep, ValuesStep DEF TypeOK, Flags, Values

\* What the buttons before this one did to the screen.
LEMMA BranchStep == TypeOK /\ ScreenOfBranch /\ [Next]_vars => ScreenOfBranch'
<1> SUFFICES ASSUME TypeOK, ScreenOfBranch, [Next]_vars PROVE ScreenOfBranch'
  OBVIOUS
<1> USE DEF TypeOK, ScreenOfBranch
<1>1. CASE PollReturns
  BY <1>1 DEF PollReturns, AfterPoll
<1>2. CASE PollResumes
  BY <1>2 DEF PollResumes, Load, Show
<1>3. CASE PollDelay
  BY <1>3 DEF PollDelay, CountDown, Branch, SearchPage, Load, Show, OpenNetconf
<1>4. CASE Select
  BY <1>4 DEF Select, Pressed, EmptyList
<1>5. CASE Page
  BY <1>5 DEF Page, Pressed, SearchPage, Load, Show, OpenNetconf
<1>6. CASE EnterFolder
  BY <1>6 DEF EnterFolder, Pressed, Show
<1>7. CASE EnterFeed
  BY <1>7 DEF EnterFeed, Pressed, Show
<1>8. CASE Watch
  BY <1>8 DEF Watch, Pressed
<1>9. CASE SearchText
  BY <1>9 DEF SearchText, Pressed, OpenOsk, OskRefused
<1>10. CASE OpenMenu
  BY <1>10 DEF OpenMenu, Pressed
<1>11. CASE Panes
  BY <1>11 DEF Panes, Pressed
<1>12. CASE LeaveMenu
  BY <1>12 DEF LeaveMenu, Pressed, CloseMenu
<1>13. CASE TagSearch
  BY <1>13 DEF TagSearch, Item, Pressed, CloseMenu, SearchPage, Load, Show,
     OpenNetconf
<1>14. CASE PlainItem
  BY <1>14 DEF PlainItem, Item, Pressed, CloseMenu
<1>15. CASE NetStatus
  BY <1>15 DEF NetStatus, Item, Pressed, CloseMenu, OpenNetconf
<1>16. CASE PlayPlaylist
  BY <1>16 DEF PlayPlaylist, Item, Pressed, CloseMenu
<1>17. CASE Delete
  BY <1>17 DEF Delete, Item, Pressed, CloseMenu, Load, Show
<1>18. ASSUME NEW m \in Modes \ {"search"}, TextItem(m) PROVE ScreenOfBranch'
  BY <1>18 DEF TextItem, Item, Pressed, CloseMenu, OpenOsk, OskRefused
<1>19. CASE PollEnds
  BY <1>19 DEF PollEnds, AfterPoll
<1>20. CASE Bootstrap
  BY <1>20 DEF Bootstrap, OpenNetconf
<1>21. CASE RenderSplash
  BY <1>21 DEF RenderSplash
<1>22. CASE Render
  BY <1>22 DEF Render, SlideMenu
<1>23. CASE UpdateOsk
  BY <1>23 DEF UpdateOsk, OskCancelled, OskDone, OskIdle, ShutOsk, Load, Show
<1>24. CASE NetconfRuns
  BY <1>24 DEF NetconfRuns
<1>25. CASE NetconfEnds
  BY <1>25 DEF NetconfEnds
<1>26. CASE StartMain
  BY <1>26 DEF StartMain, MainSite, Load, Show
<1>27. CASE Tick
  BY <1>27 DEF Tick
<1>28. CASE OskMoves
  BY <1>28 DEF OskMoves, Away
<1>29. CASE NetconfMoves
  BY <1>29 DEF NetconfMoves, Away
<1>30. CASE UNCHANGED vars
  BY <1>30 DEF vars
<1> QED
  BY <1>1, <1>2, <1>3, <1>4, <1>5, <1>6, <1>7, <1>8, <1>9, <1>10, <1>11,
     <1>12, <1>13, <1>14, <1>15, <1>16, <1>17, <1>18, <1>19, <1>20, <1>21,
     <1>22, <1>23, <1>24, <1>25, <1>26, <1>27, <1>28, <1>29, <1>30
  DEF Next, Frame, Buttons

\* A menu is given back with the phase it was taken away in, or opened anew.
LEMMA MenuStep == TypeOK /\ MenuAlive /\ [Next]_vars => MenuAlive'
<1> SUFFICES ASSUME TypeOK, MenuAlive, [Next]_vars PROVE MenuAlive'
  OBVIOUS
<1> USE DEF MenuAlive, TypeOK
<1>1. CASE PollReturns
  BY <1>1 DEF PollReturns, AfterPoll
<1>2. CASE PollResumes
  BY <1>2 DEF PollResumes, Load, Show
<1>3. CASE PollDelay
  BY <1>3 DEF PollDelay, CountDown, Branch, SearchPage, Load, Show, OpenNetconf
<1>4. CASE Select
  BY <1>4 DEF Select, Pressed, EmptyList
<1>5. CASE Page
  BY <1>5 DEF Page, Pressed, SearchPage, Load, Show, OpenNetconf
<1>6. CASE EnterFolder
  BY <1>6 DEF EnterFolder, Pressed, Show
<1>7. CASE EnterFeed
  BY <1>7 DEF EnterFeed, Pressed, Show
<1>8. CASE Watch
  BY <1>8 DEF Watch, Pressed
<1>9. CASE SearchText
  BY <1>9 DEF SearchText, Pressed, OpenOsk, OskRefused
<1>10. CASE OpenMenu
  BY <1>10 DEF OpenMenu, Pressed
<1>11. CASE Panes
  BY <1>11 DEF Panes, Pressed
<1>12. CASE LeaveMenu
  BY <1>12 DEF LeaveMenu, Pressed, CloseMenu
<1>13. CASE TagSearch
  BY <1>13 DEF TagSearch, Item, Pressed, CloseMenu, SearchPage, Load, Show,
     OpenNetconf
<1>14. CASE PlainItem
  BY <1>14 DEF PlainItem, Item, Pressed, CloseMenu
<1>15. CASE NetStatus
  BY <1>15 DEF NetStatus, Item, Pressed, CloseMenu, OpenNetconf
<1>16. CASE PlayPlaylist
  BY <1>16 DEF PlayPlaylist, Item, Pressed, CloseMenu
<1>17. CASE Delete
  BY <1>17 DEF Delete, Item, Pressed, CloseMenu, Load, Show
<1>18. ASSUME NEW m \in Modes \ {"search"}, TextItem(m) PROVE MenuAlive'
  BY <1>18 DEF TextItem, Item, Pressed, CloseMenu, OpenOsk, OskRefused
<1>19. CASE PollEnds
  BY <1>19 DEF PollEnds, AfterPoll
<1>20. CASE Bootstrap
  BY <1>20 DEF Bootstrap, OpenNetconf
<1>21. CASE RenderSplash
  BY <1>21 DEF RenderSplash
<1>22. CASE Render
  BY <1>22 DEF Render, SlideMenu
<1>23. CASE UpdateOsk
  BY <1>23 DEF UpdateOsk, OskCancelled, OskDone, OskIdle, ShutOsk, Load, Show
<1>24. CASE NetconfRuns
  BY <1>24 DEF NetconfRuns
<1>25. CASE NetconfEnds
  BY <1>25 DEF NetconfEnds
<1>26. CASE StartMain
  BY <1>26 DEF StartMain, MainSite, Load, Show
<1>27. CASE Tick
  BY <1>27 DEF Tick
<1>28. CASE OskMoves
  BY <1>28 DEF OskMoves, Away
<1>29. CASE NetconfMoves
  BY <1>29 DEF NetconfMoves, Away
<1>30. CASE UNCHANGED vars
  BY <1>30 DEF vars
<1> QED
  BY <1>1, <1>2, <1>3, <1>4, <1>5, <1>6, <1>7, <1>8, <1>9, <1>10, <1>11,
     <1>12, <1>13, <1>14, <1>15, <1>16, <1>17, <1>18, <1>19, <1>20, <1>21,
     <1>22, <1>23, <1>24, <1>25, <1>26, <1>27, <1>28, <1>29, <1>30
  DEF Next, Frame, Buttons

\* The keyboard's screen comes with a keyboard, and no button behind it is
\* handled any more.
LEMMA KeyboardStep == TypeOK /\ ScreenOfBranch /\ KeyboardKept /\ [Next]_vars => KeyboardKept'
<1> SUFFICES ASSUME TypeOK, ScreenOfBranch, KeyboardKept, [Next]_vars PROVE KeyboardKept'
  OBVIOUS
<1> USE DEF TypeOK, ScreenOfBranch, KeyboardKept, KeyboardDue, OskOpen
<1>1. CASE PollReturns
  BY <1>1 DEF PollReturns, AfterPoll
<1>2. CASE PollResumes
  BY <1>2 DEF PollResumes, Load, Show
<1>3. CASE PollDelay
  BY <1>3 DEF PollDelay, CountDown, Branch, SearchPage, Load, Show, OpenNetconf
<1>4. CASE Select
  BY <1>4 DEF Select, Pressed, EmptyList
<1>5. CASE Page
  <2>1. screen' = "results"
    BY <1>5 DEF Page
  <2> QED
    BY <2>1
<1>6. CASE EnterFolder
  BY <1>6 DEF EnterFolder, Pressed, Show
<1>7. CASE EnterFeed
  BY <1>7 DEF EnterFeed, Pressed, Show
<1>8. CASE Watch
  BY <1>8 DEF Watch, Pressed
<1>9. CASE SearchText
  BY <1>9 DEF SearchText, Pressed, OpenOsk, OskRefused
<1>10. CASE OpenMenu
  BY <1>10 DEF OpenMenu, Pressed
<1>11. CASE Panes
  BY <1>11 DEF Panes, Pressed
<1>12. CASE LeaveMenu
  BY <1>12 DEF LeaveMenu, Pressed, CloseMenu
<1>13. CASE TagSearch
  <2>1. screen' = "menu" /\ target' = "results"
    BY <1>13 DEF TagSearch, CloseMenu
  <2> QED
    BY <2>1
<1>14. CASE PlainItem
  BY <1>14 DEF PlainItem, Item, Pressed, CloseMenu
<1>15. CASE NetStatus
  BY <1>15 DEF NetStatus, Item, Pressed, CloseMenu, OpenNetconf
<1>16. CASE PlayPlaylist
  BY <1>16 DEF PlayPlaylist, Item, Pressed, CloseMenu
<1>17. CASE Delete
  BY <1>17 DEF Delete, Item, Pressed, CloseMenu, Load, Show
<1>18. ASSUME NEW m \in Modes \ {"search"}, TextItem(m) PROVE KeyboardKept'
  BY <1>18 DEF TextItem, Item, Pressed, CloseMenu, OpenOsk, OskRefused
<1>19. CASE PollEnds
  BY <1>19 DEF PollEnds, AfterPoll
<1>20. CASE Bootstrap
  BY <1>20 DEF Bootstrap, OpenNetconf
<1>21. CASE RenderSplash
  BY <1>21 DEF RenderSplash
<1>22. CASE Render
  BY <1>22 DEF Render, SlideMenu
<1>23. CASE UpdateOsk
  BY <1>23 DEF UpdateOsk, OskCancelled, OskDone, OskIdle, ShutOsk, Load, Show
<1>24. CASE NetconfRuns
  BY <1>24 DEF NetconfRuns
<1>25. CASE NetconfEnds
  BY <1>25 DEF NetconfEnds
<1>26. CASE StartMain
  BY <1>26 DEF StartMain, MainSite, Load, Show
<1>27. CASE Tick
  BY <1>27 DEF Tick
<1>28. CASE OskMoves
  BY <1>28 DEF OskMoves, Away
<1>29. CASE NetconfMoves
  BY <1>29 DEF NetconfMoves, Away
<1>30. CASE UNCHANGED vars
  BY <1>30 DEF vars
<1> QED
  BY <1>1, <1>2, <1>3, <1>4, <1>5, <1>6, <1>7, <1>8, <1>9, <1>10, <1>11,
     <1>12, <1>13, <1>14, <1>15, <1>16, <1>17, <1>18, <1>19, <1>20, <1>21,
     <1>22, <1>23, <1>24, <1>25, <1>26, <1>27, <1>28, <1>29, <1>30
  DEF Next, Frame, Buttons

\* A keyboard that renames was opened on Favorites' menu, and its source stays.
LEMMA RenameStep ==
  TypeOK /\ ScreenOfBranch /\ ListIsOfSource /\ RenamesInFavorites /\ [Next]_vars
    => RenamesInFavorites'
<1> SUFFICES ASSUME TypeOK, ScreenOfBranch, ListIsOfSource, RenamesInFavorites,
                    [Next]_vars
             PROVE  RenamesInFavorites'
  OBVIOUS
<1> USE DEF TypeOK, ScreenOfBranch, RenamesInFavorites, KeyboardDue
<1>1. CASE PollReturns
  BY <1>1 DEF PollReturns, AfterPoll
<1>2. CASE PollResumes
  BY <1>2 DEF PollResumes, Load, Show
<1>3. CASE PollDelay
  BY <1>3 DEF PollDelay, CountDown, Branch, SearchPage, Load, Show, OpenNetconf
<1>4. CASE Select
  BY <1>4 DEF Select, Pressed, EmptyList
<1>5. CASE Page
  <2>1. pc' = "buttons" /\ screen' = "results"
    BY <1>5 DEF Page, Pressed
  <2> QED
    BY <2>1
<1>6. CASE EnterFolder
  BY <1>6 DEF EnterFolder, Pressed, Show
<1>7. CASE EnterFeed
  BY <1>7 DEF EnterFeed, Pressed, Show
<1>8. CASE Watch
  BY <1>8 DEF Watch, Pressed
<1>9. CASE SearchText
  BY <1>9 DEF SearchText, Pressed, OpenOsk, OskRefused
<1>10. CASE OpenMenu
  BY <1>10 DEF OpenMenu, Pressed
<1>11. CASE Panes
  BY <1>11 DEF Panes, Pressed
<1>12. CASE LeaveMenu
  BY <1>12 DEF LeaveMenu, Pressed, CloseMenu
<1>13. CASE TagSearch
  <2>1. pc' = "buttons" /\ screen' = "menu" /\ target' = "results"
    BY <1>13 DEF TagSearch, Item, Pressed, CloseMenu
  <2> QED
    BY <2>1
<1>14. CASE PlainItem
  BY <1>14 DEF PlainItem, Item, Pressed, CloseMenu
<1>15. CASE NetStatus
  BY <1>15 DEF NetStatus, Item, Pressed, CloseMenu, OpenNetconf
<1>16. CASE PlayPlaylist
  BY <1>16 DEF PlayPlaylist, Item, Pressed, CloseMenu
<1>17. CASE Delete
  BY <1>17 DEF Delete, Item, Pressed, CloseMenu, Load, Show
<1>18. ASSUME NEW m \in Modes \ {"search"}, TextItem(m) PROVE RenamesInFavorites'
  BY <1>18 DEF TextItem, Item, FullMenu, Pressed, CloseMenu, OpenOsk,
     OskRefused, ListIsOfSource, Favorites, Playlist, NoSite
<1>19. CASE PollEnds
  BY <1>19 DEF PollEnds, AfterPoll
<1>20. CASE Bootstrap
  BY <1>20 DEF Bootstrap, OpenNetconf
<1>21. CASE RenderSplash
  BY <1>21 DEF RenderSplash
<1>22. CASE Render
  BY <1>22 DEF Render, SlideMenu
<1>23. CASE UpdateOsk
  BY <1>23 DEF UpdateOsk, OskCancelled, OskDone, OskIdle, ShutOsk, Load, Show
<1>24. CASE NetconfRuns
  BY <1>24 DEF NetconfRuns
<1>25. CASE NetconfEnds
  BY <1>25 DEF NetconfEnds
<1>26. CASE StartMain
  BY <1>26 DEF StartMain, MainSite, Load, Show
<1>27. CASE Tick
  BY <1>27 DEF Tick
<1>28. CASE OskMoves
  BY <1>28 DEF OskMoves, Away
<1>29. CASE NetconfMoves
  BY <1>29 DEF NetconfMoves, Away
<1>30. CASE UNCHANGED vars
  BY <1>30 DEF vars
<1> QED
  BY <1>1, <1>2, <1>3, <1>4, <1>5, <1>6, <1>7, <1>8, <1>9, <1>10, <1>11,
     <1>12, <1>13, <1>14, <1>15, <1>16, <1>17, <1>18, <1>19, <1>20, <1>21,
     <1>22, <1>23, <1>24, <1>25, <1>26, <1>27, <1>28, <1>29, <1>30
  DEF Next, Frame, Buttons

\* A search that waits has just opened its dialog.
LEMMA SearchPageWaits ==
  ASSUME WaitsForDialog, SearchPage
  PROVE  WaitsForDialog'
<1>1. CASE UNCHANGED <<waiting, net>>
  BY <1>1 DEF WaitsForDialog
<1>2. CASE OpenNetconf
  BY <1>2 DEF OpenNetconf, WaitsForDialog
<1>3. CASE waiting' = FALSE
  BY <1>3 DEF WaitsForDialog
<1> QED
  BY <1>1, <1>2, <1>3 DEF SearchPage

\* Whoever makes a search wait has opened a dialog; the dialog's end is kept.
LEMMA WaitStep == TypeOK /\ WaitsForDialog /\ [Next]_vars => WaitsForDialog'
<1> SUFFICES ASSUME TypeOK, WaitsForDialog, [Next]_vars PROVE WaitsForDialog'
  OBVIOUS
<1> USE DEF TypeOK, WaitsForDialog, HasEnded
<1>1. CASE PollReturns
  BY <1>1 DEF PollReturns, AfterPoll
<1>2. CASE PollResumes
  BY <1>2 DEF PollResumes, Load, Show
<1>3. CASE PollDelay
  BY <1>3 DEF PollDelay, CountDown, Branch, SearchPage, Load, Show, OpenNetconf
<1>4. CASE Select
  BY <1>4 DEF Select, Pressed, EmptyList
<1>5. CASE Page
  BY <1>5, SearchPageWaits DEF Page
<1>6. CASE EnterFolder
  BY <1>6 DEF EnterFolder, Pressed, Show
<1>7. CASE EnterFeed
  BY <1>7 DEF EnterFeed, Pressed, Show
<1>8. CASE Watch
  BY <1>8 DEF Watch, Pressed
<1>9. CASE SearchText
  BY <1>9 DEF SearchText, Pressed, OpenOsk, OskRefused
<1>10. CASE OpenMenu
  BY <1>10 DEF OpenMenu, Pressed
<1>11. CASE Panes
  BY <1>11 DEF Panes, Pressed
<1>12. CASE LeaveMenu
  BY <1>12 DEF LeaveMenu, Pressed, CloseMenu
<1>13. CASE TagSearch
  BY <1>13, SearchPageWaits DEF TagSearch
<1>14. CASE PlainItem
  BY <1>14 DEF PlainItem, Item, Pressed, CloseMenu
<1>15. CASE NetStatus
  BY <1>15 DEF NetStatus, Item, Pressed, CloseMenu, OpenNetconf
<1>16. CASE PlayPlaylist
  BY <1>16 DEF PlayPlaylist, Item, Pressed, CloseMenu
<1>17. CASE Delete
  BY <1>17 DEF Delete, Item, Pressed, CloseMenu, Load, Show
<1>18. ASSUME NEW m \in Modes \ {"search"}, TextItem(m) PROVE WaitsForDialog'
  BY <1>18 DEF TextItem, Item, Pressed, CloseMenu, OpenOsk, OskRefused
<1>19. CASE PollEnds
  BY <1>19 DEF PollEnds, AfterPoll
<1>20. CASE Bootstrap
  BY <1>20 DEF Bootstrap, OpenNetconf
<1>21. CASE RenderSplash
  BY <1>21 DEF RenderSplash
<1>22. CASE Render
  BY <1>22 DEF Render, SlideMenu
<1>23. CASE UpdateOsk
  BY <1>23 DEF UpdateOsk, OskCancelled, OskDone, OskIdle, ShutOsk, Load, Show
<1>24. CASE NetconfRuns
  BY <1>24 DEF NetconfRuns
<1>25. CASE NetconfEnds
  BY <1>25 DEF NetconfEnds
<1>26. CASE StartMain
  BY <1>26 DEF StartMain, MainSite, Load, Show
<1>27. CASE Tick
  BY <1>27 DEF Tick
<1>28. CASE OskMoves
  BY <1>28 DEF OskMoves, Away
<1>29. CASE NetconfMoves
  BY <1>29 DEF NetconfMoves, Away
<1>30. CASE UNCHANGED vars
  BY <1>30 DEF vars
<1> QED
  BY <1>1, <1>2, <1>3, <1>4, <1>5, <1>6, <1>7, <1>8, <1>9, <1>10, <1>11,
     <1>12, <1>13, <1>14, <1>15, <1>16, <1>17, <1>18, <1>19, <1>20, <1>21,
     <1>22, <1>23, <1>24, <1>25, <1>26, <1>27, <1>28, <1>29, <1>30
  DEF Next, Frame, Buttons

\* The list is loaded from the source, kept, or emptied with it.
LEMMA ListStep ==
  TypeOK /\ RenamesInFavorites /\ ListIsOfSource /\ [Next]_vars => ListIsOfSource'
<1> SUFFICES ASSUME TypeOK, RenamesInFavorites, ListIsOfSource, [Next]_vars
             PROVE  ListIsOfSource'
  OBVIOUS
<1> USE DEF TypeOK, ListIsOfSource, NoSite, Favorites, Playlist, LocalSites
<1>1. CASE PollReturns
  BY <1>1 DEF PollReturns, AfterPoll
<1>2. CASE PollResumes
  BY <1>2 DEF PollResumes, Load, Show
<1>3. CASE PollDelay
  BY <1>3 DEF PollDelay, CountDown, Branch, SearchPage, Load, Show, OpenNetconf
<1>4. CASE Select
  BY <1>4 DEF Select, Pressed, EmptyList
<1>5. CASE Page
  BY <1>5 DEF Page, Pressed, SearchPage, Load, Show, OpenNetconf
<1>6. CASE EnterFolder
  <2>1. /\ site' = site /\ list \in {0, 1} /\ list' \in {0, -1}
        /\ strayed' = (site # 0)
    BY <1>6 DEF EnterFolder, Pressed, Show
  <2>2. site = 1 \/ list = site
    BY <2>1
  <2>3. CASE site = 0
    <3>1. ~strayed'
      BY <2>1, <2>3
    <3> QED
      BY <2>1, <2>3, <3>1
  <2>4. CASE site = 1
    <3>1. site # 0
      BY <2>4
    <3>2. strayed'
      BY <2>1, <3>1, Zenon
    <3> QED
      BY <2>1, <2>4, <3>2
  <2> QED
    BY <2>1, <2>2, <2>3, <2>4
<1>7. CASE EnterFeed
  BY <1>7 DEF EnterFeed, Pressed, Show
<1>8. CASE Watch
  BY <1>8 DEF Watch, Pressed
<1>9. CASE SearchText
  BY <1>9 DEF SearchText, Pressed, OpenOsk, OskRefused
<1>10. CASE OpenMenu
  BY <1>10 DEF OpenMenu, Pressed
<1>11. CASE Panes
  BY <1>11 DEF Panes, Pressed
<1>12. CASE LeaveMenu
  BY <1>12 DEF LeaveMenu, Pressed, CloseMenu
<1>13. CASE TagSearch
  BY <1>13 DEF TagSearch, Item, Pressed, CloseMenu, SearchPage, Load, Show,
     OpenNetconf
<1>14. CASE PlainItem
  BY <1>14 DEF PlainItem, Item, Pressed, CloseMenu
<1>15. CASE NetStatus
  BY <1>15 DEF NetStatus, Item, Pressed, CloseMenu, OpenNetconf
<1>16. CASE PlayPlaylist
  BY <1>16 DEF PlayPlaylist, Item, Pressed, CloseMenu
<1>17. CASE Delete
  BY <1>17 DEF Delete, Item, FullMenu, Pressed, CloseMenu, Load, Show
<1>18. ASSUME NEW m \in Modes \ {"search"}, TextItem(m) PROVE ListIsOfSource'
  BY <1>18 DEF TextItem, Item, Pressed, CloseMenu, OpenOsk, OskRefused
<1>19. CASE PollEnds
  BY <1>19 DEF PollEnds, AfterPoll
<1>20. CASE Bootstrap
  BY <1>20 DEF Bootstrap, OpenNetconf
<1>21. CASE RenderSplash
  BY <1>21 DEF RenderSplash
<1>22. CASE Render
  BY <1>22 DEF Render, SlideMenu
<1>23. CASE UpdateOsk
  BY <1>23 DEF UpdateOsk, OskCancelled, OskDone, OskIdle, ShutOsk, Load, Show,
     RenamesInFavorites, KeyboardDue
<1>24. CASE NetconfRuns
  BY <1>24 DEF NetconfRuns
<1>25. CASE NetconfEnds
  BY <1>25 DEF NetconfEnds
<1>26. CASE StartMain
  BY <1>26 DEF StartMain, MainSite, Load, Show
<1>27. CASE Tick
  BY <1>27 DEF Tick
<1>28. CASE OskMoves
  BY <1>28 DEF OskMoves, Away
<1>29. CASE NetconfMoves
  BY <1>29 DEF NetconfMoves, Away
<1>30. CASE UNCHANGED vars
  BY <1>30 DEF vars
<1> QED
  BY <1>1, <1>2, <1>3, <1>4, <1>5, <1>6, <1>7, <1>8, <1>9, <1>10, <1>11,
     <1>12, <1>13, <1>14, <1>15, <1>16, <1>17, <1>18, <1>19, <1>20, <1>21,
     <1>22, <1>23, <1>24, <1>25, <1>26, <1>27, <1>28, <1>29, <1>30
  DEF Next, Frame, Buttons

-----------------------------------------------------------------------------
\* The inductive invariant: it holds in every frame, between any two steps.
THEOREM Invariance == Spec => []IInv
<1>1. IInv /\ [Next]_vars => IInv'
  BY TypeStep, BranchStep, MenuStep, KeyboardStep, RenameStep, WaitStep, ListStep
  DEF IInv
<1> QED
  BY InvInit, <1>1, PTL DEF Spec

\* The statics of the main thread's modules keep their types.
THEOREM TypeCorrect == Spec => []TypeOK
<1>1. IInv => TypeOK
  BY DEF IInv
<1> QED
  BY Invariance, <1>1, PTL

\* A shown menu is in a phase that the poll answers or the renderer ends.
THEOREM MenusAnswer == Spec => []MenuAlive
<1>1. IInv => MenuAlive
  BY DEF IInv
<1> QED
  BY Invariance, <1>1, PTL

\* A keyboard's screen always has the keyboard it was entered for, and the list
\* it was opened on.
THEOREM KeyboardsAreKept == Spec => []KeyboardKept
<1>1. IInv => KeyboardKept
  BY DEF IInv
<1> QED
  BY Invariance, <1>1, PTL

\* A search that waits has a dialog whose end will resume it.
THEOREM SearchesWaitForDialogs == Spec => []WaitsForDialog
<1>1. IInv => WaitsForDialog
  BY DEF IInv
<1> QED
  BY Invariance, <1>1, PTL

\* The results shown are those of the source the header names, but for the
\* folders entered from the playlist, which show Favorites' files under its name
\* until the next search or change of the source.
THEOREM ListsAreOfTheirSource == Spec => []ListIsOfSource
<1>1. IInv => ListIsOfSource
  BY DEF IInv
<1> QED
  BY Invariance, <1>1, PTL

=============================================================================
