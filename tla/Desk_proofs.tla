----------------------------- MODULE Desk_proofs -----------------------------
(***************************************************************************)
(* What is proved of each store by itself holds of the stores side by      *)
(* side: a behaviour of the desk is one of every store.                    *)
(***************************************************************************)
EXTENDS MCDesk, Blueprints_proofs, Library_proofs, Settings_proofs, Layers_proofs, Lists_proofs, TLAPS

\* No store takes a step beside the one that is at the desk.
LEMMA DeskSteps ==
  ASSUME [DeskNext]_deskVars
  PROVE  /\ [StoreNext]_storeVars /\ [LibraryNext]_libraryVars /\ [TagNext]_tagVars
         /\ [SettingsNext]_settingsVars /\ [GateNext]_gateVars /\ [ScopedNext]_scopedVars
         /\ [PollNext]_pollVars /\ [IdNext]_idVars
<1>1. CASE DeskNext
  BY <1>1 DEF DeskNext
<1>2. CASE UNCHANGED deskVars
  BY <1>2 DEF deskVars
<1> QED
  BY <1>1, <1>2

\* A behaviour of the desk is one of each store: whatever is promised of a store is promised of it at the desk.
THEOREM DeskIsEachStore ==
  DeskSpec => /\ StoreSpec /\ LibrarySpec /\ TagSpec /\ SettingsSpec /\ GateSpec /\ ScopedSpec
              /\ PollSpec /\ IdSpec
<1>1. DeskInit => /\ StoreInit /\ LibraryInit /\ TagInit /\ SettingsInit /\ GateInit /\ ScopedInit
                  /\ PollInit /\ IdInit
  BY DEF DeskInit
<1> QED
  BY <1>1, DeskSteps, PTL
     DEF DeskSpec, StoreSpec, LibrarySpec, TagSpec, SettingsSpec, GateSpec, ScopedSpec, PollSpec, IdSpec

\* At the desk every store holds what its types say, limits included.
THEOREM DeskTypesHold == DeskSpec => []DeskTypeOK
<1>1. /\ StoreTypeOK /\ LibraryTypeOK /\ TagTypeOK /\ SettingsTypeOK /\ GateTypeOK /\ ScopedTypeOK /\ LayerTypeOK
      /\ IdTypeOK
      => DeskTypeOK
  BY DEF DeskTypeOK
<1> QED
  BY <1>1, DeskIsEachStore, StoreTypesHold, LibraryTypesHold, RulesAreTyped, SettingsTypesHold, GateTypesHold,
     ScopedTypesHold, LayerTypesHold, IdTypes, PTL
=============================================================================
