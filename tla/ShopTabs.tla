--------------------------------- MODULE ShopTabs ---------------------------------
(***************************************************************************)
(* The shop app after its login: the loading screen, which makes its       *)
(* animation before anything else (GifFrames), then the tabs: the map on   *)
(* which an order is begun (CreateNews) and the list of the shop's orders  *)
(* (ShopList), behind one tab bar.  The map's tab comes up first; the list *)
(* is loaded when its tab is first selected; the third tab, the account,   *)
(* has no state.  A form is posted from the top of the map (PostItem) and  *)
(* then taken off it.  How the loading screen gets its answer is in        *)
(* ShopSession.                                                            *)
(***************************************************************************)
EXTENDS ShopList, CreateNews, GifFrames

CONSTANT Launches   \* bound: what a launch of the app is about

ASSUME ShopTabsAssumption ==
  \A l \in Launches :
    /\ l.about \in {"loading", "posts", "list"}
    /\ l.holder \in [Orders -> Holders \cup {Unposted}]
    /\ l.source \in Seq(Image)

VARIABLE launch   \* the one of Launches this is

tabs == <<vars, tab, gif, launch>>

TabsInit ==
  /\ Init /\ CreateInit
  /\ launch \in Launches
  /\ holder = launch.holder
  /\ GifInit(launch.source)

(* Another tab is selected, the list among them where the launch is about   *)
(* it: that loads it.                                                       *)
SelectTab ==
  /\ LeaveTab
  /\ \/ launch.about = "list" /\ OpenList
     \/ UNCHANGED vars
  /\ UNCHANGED <<gif, launch>>

Loaded == step = "done" /\ launch.about # "loading"

TabsNext ==
  \/ GifNext /\ UNCHANGED <<vars, tab, launch>>
  \/ Loaded /\ SelectTab
  \/ Loaded /\ ReturnTab /\ UNCHANGED <<vars, gif, launch>>
  \/ Loaded /\ launch.about = "posts" /\ CreateNext /\ UNCHANGED <<vars, gif, launch>>
  \/ Loaded /\ PopForm /\ UNCHANGED <<vars, gif, launch>>
  \/ Loaded /\ launch.about = "list" /\ ListNext /\ UNCHANGED <<tab, gif, launch>>

TabsSpec == TabsInit /\ [][TabsNext]_tabs
===================================================================================
