----------------------------- MODULE MCWebPages -----------------------------
(***************************************************************************)
(* The pages that manage rows and settings, each on its own: an initial    *)
(* state per page, with the analyst, the server and the other analysts as  *)
(* the actors.                                                             *)
(***************************************************************************)
EXTENDS ManagedLists, AdminTabs, SettingsPage

MCSlot  == 1..2
MCReads == {"config"}
TablePages == ListPages \cup LocalPages

\* Where there is more to do there is one event less (a bound).
WebInit ==
  /\ FrameInit /\ q = NoData
  /\ \/ ListInit /\ used = IF db = Table({Self}) THEN 0 ELSE 1
     \/ (LocalInit \/ SettingsInit) /\ used = 1

WebNext ==
  \/ page \in TablePages /\ \E r \in Row, v \in Value : Other(r, v)
  \/ ListUser \/ LocalUser \/ AdminUser \/ SettingsUser
  \/ \E c \in Slot :
       \/ ServeList(c) \/ ServeBinary(c) \/ ServeLoad(c) \/ ServeRun(c) \/ ServeChange(c) \/ SettingsServed(c)
       \/ ListContinued(c) \/ LocalContinued(c) \/ AdminContinued(c) \/ SettingsContinued(c)
       \/ FetchAgain(c) \/ Retries(c) \/ Breaks(c) \/ Unserved(c) \/ Outage(c)

WebSpec == WebInit /\ [][WebNext]_frame

\* Every page's state has the type its component declares, and no fetch shows
\* a table the server never had.
TypeOK ==
  /\ FrameTypeOK
  /\ page \in TablePages => TableTypeOK
  /\ page \in ListPages  => ListTypeOK
  /\ page \in LocalPages => LocalTypeOK
  /\ page = "settings"   => SettingsTypeOK

\* What a page was told is saved is in what it shows once no fetch is under
\* way, on the lists and in the settings (invalidateQueries after each change).
ChangesShown == RowChangesShown /\ SavedIsFetched

\* No dialog, download, refresh, save or check is shown as going on without
\* the request that will end it (the finally blocks and catches of the pages).
NothingStuck == SpinnerHasCall /\ SettingsSpinnerHasCall
=============================================================================
