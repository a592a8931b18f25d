----------------------------- MODULE SavedBuilds ------------------------------
(* The builds a user saves in the browser's storage, the copies he        *)
(* publishes, and their backup file (modules/build-manager.js and          *)
(* build-publish.js): every operation reads the whole list, changes it and *)
(* writes it back, and the ones that ask the server or the user do so      *)
(* between the reading and the writing.                                    *)
(*                                                                         *)
(* A name stands for a weapon and a name without regard to case, a code    *)
(* for what the build is made of; tags and dates are left out.             *)
EXTENDS Integers, Subsequences

CONSTANTS Names, Codes, SaveCap, MergeCap, MaxSaves, MaxPublishes
                                               \* bounds: MaxSaves, MaxPublishes

ASSUME SavedBuildsConstants ==
  /\ {SaveCap, MergeCap, MaxSaves, MaxPublishes} \subseteq Nat \ {0}

VARIABLES
  sbStore,       \* eftforge_builds, the newest first
  sbMarked,      \* eftforge_published_ids
  sbServer,      \* the copies the server shows
  sbFile,        \* the backup the user exported
  sbAsk,         \* the name whose overwriting is to be confirmed
  sbMerge,       \* the open dialog of name conflicts
  sbPanel,       \* the publish panel: its build, and whether it is sending
  sbCalls,       \* requests to the server
  sbSaves, sbPublishes

sbDialogs == <<sbAsk, sbMerge>>
sbRemote == <<sbServer, sbCalls, sbPublishes>>
sbVars == <<sbStore, sbMarked, sbFile, sbDialogs, sbPanel, sbRemote, sbSaves>>

Unpublished == 0
NoName == "none"
NoMerge == [conflicts |-> <<>>, clean |-> <<>>, existing |-> <<>>]
NoPanel == [id |-> 0, sending |-> FALSE]

IdsOf(builds) == {builds[i].id : i \in DOMAIN builds}
NamesOf(builds) == {builds[i].name : i \in DOMAIN builds}
FirstOf(n, builds) == SubSeq(builds, 1, IF Len(builds) < n THEN Len(builds) ELSE n)
EntryOf(id) == CHOOSE b \in Range(sbStore) : b.id = id
Changed(builds, P(_), F(_)) ==
  [i \in DOMAIN builds |-> IF P(builds[i]) THEN F(builds[i]) ELSE builds[i]]

SavedBuildsInit ==
  /\ sbStore = <<>> /\ sbMarked = {} /\ sbServer = {} /\ sbFile = <<>>
  /\ sbAsk = NoName /\ sbMerge = NoMerge /\ sbPanel = NoPanel /\ sbCalls = {}
  /\ sbSaves = 0 /\ sbPublishes = 0

NoDialog == sbAsk = NoName /\ sbMerge = NoMerge      \* a dialog covers the page
SaveToStorage(builds) == sbStore' = builds

-------------------------------------------------------------------------------
(* saveCurrentBuild. *)

SaveNew ==
  /\ NoDialog /\ sbSaves < MaxSaves
  /\ \E name \in Names \ NamesOf(sbStore), code \in Codes :
       SaveToStorage(FirstOf(SaveCap, <<[id |-> sbSaves + 1, name |-> name, code |-> code,
                                   pub |-> Unpublished]>> \o sbStore))
  /\ sbSaves' = sbSaves + 1
  /\ UNCHANGED <<sbMarked, sbFile, sbDialogs, sbPanel, sbRemote>>

SaveDuplicate ==
  /\ NoDialog /\ sbAsk' \in NamesOf(sbStore)
  /\ UNCHANGED <<sbStore, sbMarked, sbFile, sbMerge, sbPanel, sbRemote, sbSaves>>

(* An answer may have taken the build away meanwhile: it is then saved anew.*)
ConfirmOverwrite ==
  /\ sbAsk # NoName /\ sbAsk' = NoName
  /\ \E code \in Codes :
       IF sbAsk \in NamesOf(sbStore)
       THEN /\ LET first == SelectInSeq(sbStore, LAMBDA b : b.name = sbAsk)
               IN SaveToStorage([sbStore EXCEPT ![first].code = code])
            /\ UNCHANGED sbSaves
       ELSE /\ sbSaves < MaxSaves /\ sbSaves' = sbSaves + 1
            /\ SaveToStorage(FirstOf(SaveCap, <<[id |-> sbSaves + 1, name |-> sbAsk, code |-> code,
                                           pub |-> Unpublished]>> \o sbStore))
  /\ UNCHANGED <<sbMarked, sbFile, sbMerge, sbPanel, sbRemote>>

CancelOverwrite ==
  /\ sbAsk # NoName /\ sbAsk' = NoName
  /\ UNCHANGED <<sbStore, sbMarked, sbFile, sbMerge, sbPanel, sbRemote, sbSaves>>

(* deleteSavedBuild: the copy is taken down without waiting for it.        *)
DeleteBuild ==
  /\ NoDialog
  /\ \E id \in IdsOf(sbStore) :
       LET pub == EntryOf(id).pub
       IN /\ SaveToStorage(ElementsAt(sbStore, {i \in DOMAIN sbStore : sbStore[i].id # id}))
          /\ IF pub = Unpublished THEN UNCHANGED <<sbMarked, sbCalls>>
             ELSE /\ sbMarked' = sbMarked \ {id}
                  /\ sbCalls' = sbCalls \cup {[kind |-> "drop", pub |-> pub]}
  /\ UNCHANGED <<sbFile, sbDialogs, sbPanel, sbServer, sbPublishes, sbSaves>>

-------------------------------------------------------------------------------
(* Publishing. *)

OpenPanel(id) == sbPanel' = [id |-> id, sending |-> FALSE]

PublishSaved ==
  /\ NoDialog /\ \E id \in IdsOf(sbStore) \ sbMarked : OpenPanel(id)
  /\ UNCHANGED <<sbStore, sbMarked, sbFile, sbDialogs, sbRemote, sbSaves>>

(* _tryRepublishBuild of a build marked as published.                      *)
TryRepublish ==
  /\ NoDialog
  /\ \E id \in IdsOf(sbStore) \cap sbMarked :
       IF EntryOf(id).pub = Unpublished
       THEN sbMarked' = sbMarked \ {id} /\ OpenPanel(id) /\ UNCHANGED sbCalls
       ELSE /\ sbCalls' = sbCalls \cup {[kind |-> "mine", id |-> id, saved |-> sbStore]}
            /\ UNCHANGED <<sbMarked, sbPanel>>
  /\ UNCHANGED <<sbStore, sbFile, sbDialogs, sbServer, sbPublishes, sbSaves>>

(* It asks which copies are live, and writes back the list it read before. *)
RepublishAnswer ==
  \E c \in {d \in sbCalls : d.kind = "mine"}, answered \in BOOLEAN :
    /\ sbCalls' = sbCalls \ {c}
    /\ LET pub == c.saved[SelectInSeq(c.saved, LAMBDA b : b.id = c.id)].pub
       IN IF answered /\ pub \in sbServer
          THEN UNCHANGED <<sbStore, sbMarked, sbPanel>>
          ELSE /\ sbMarked' = sbMarked \ {c.id}
               /\ SaveToStorage(Changed(c.saved, LAMBDA b : b.id = c.id,
                                  LAMBDA b : [b EXCEPT !.pub = Unpublished]))
               /\ OpenPanel(c.id)
    /\ UNCHANGED <<sbFile, sbDialogs, sbServer, sbPublishes, sbSaves>>

ConfirmPublish ==
  /\ sbPanel.id # 0 /\ ~sbPanel.sending /\ sbPublishes < MaxPublishes
  /\ sbPanel' = [sbPanel EXCEPT !.sending = TRUE]
  /\ sbPublishes' = sbPublishes + 1
  /\ sbCalls' = sbCalls \cup {[kind |-> "publish", id |-> sbPanel.id, pub |-> sbPublishes + 1]}
  /\ UNCHANGED <<sbStore, sbMarked, sbFile, sbDialogs, sbServer, sbSaves>>

PublishAnswer ==
  \E c \in {d \in sbCalls : d.kind = "publish"} :
    /\ sbCalls' = sbCalls \ {c}
    /\ \/ /\ sbServer' = sbServer \cup {c.pub} /\ sbMarked' = sbMarked \cup {c.id}
          /\ IF c.id \in IdsOf(sbStore)
             THEN SaveToStorage(Changed(sbStore, LAMBDA b : b.id = c.id,
                                  LAMBDA b : [b EXCEPT !.pub = c.pub]))
             ELSE UNCHANGED sbStore
          /\ sbPanel' = NoPanel
       \/ /\ sbPanel' = IF sbPanel.id = c.id THEN [sbPanel EXCEPT !.sending = FALSE] ELSE sbPanel
          /\ UNCHANGED <<sbStore, sbMarked, sbServer>>
    /\ UNCHANGED <<sbFile, sbDialogs, sbPublishes, sbSaves>>

(* _cancelPublish, _modifyPublish.                                         *)
ClosePanel ==
  /\ sbPanel # NoPanel /\ sbPanel' = NoPanel
  /\ UNCHANGED <<sbStore, sbMarked, sbFile, sbDialogs, sbRemote, sbSaves>>

UnlistMine ==
  /\ NoDialog
  /\ \E pub \in sbServer : sbCalls' = sbCalls \cup {[kind |-> "unlist", pub |-> pub]}
  /\ UNCHANGED <<sbStore, sbMarked, sbFile, sbDialogs, sbPanel, sbServer, sbPublishes,
                 sbSaves>>

UnlistAnswer ==
  \E c \in {d \in sbCalls : d.kind \in {"drop", "unlist"}}, done \in BOOLEAN :
    /\ sbCalls' = sbCalls \ {c}
    /\ sbServer' = IF done THEN sbServer \ {c.pub} ELSE sbServer
    /\ LET own == {b.id : b \in {e \in Range(sbStore) : e.pub = c.pub}}
       IN IF done /\ c.kind = "unlist" /\ own # {}
          THEN /\ sbMarked' = sbMarked \ own
               /\ SaveToStorage(Changed(sbStore, LAMBDA b : b.pub = c.pub,
                                  LAMBDA b : [b EXCEPT !.pub = Unpublished]))
          ELSE UNCHANGED <<sbMarked, sbStore>>
    /\ UNCHANGED <<sbFile, sbDialogs, sbPanel, sbPublishes, sbSaves>>

-------------------------------------------------------------------------------
(* The backup file. *)

ExportBackup ==
  /\ NoDialog /\ sbStore # <<>> /\ sbFile' = sbStore
  /\ UNCHANGED <<sbStore, sbMarked, sbDialogs, sbPanel, sbRemote, sbSaves>>

ImportOverwrite ==
  /\ NoDialog /\ sbFile # <<>> /\ SaveToStorage(sbFile)
  /\ UNCHANGED <<sbMarked, sbFile, sbDialogs, sbPanel, sbRemote, sbSaves>>

(* _finalizeMerge: what is new goes before what there was.                 *)
Merged(add, over, existing) ==
  FirstOf(MergeCap,
    add \o [i \in DOMAIN existing |->
              LET by == {j \in DOMAIN over : over[j].name = existing[i].name}
              IN IF by # {} /\ SelectInSeq(existing, LAMBDA b : b.name = existing[i].name) = i
                 THEN [over[Max(by)] EXCEPT !.id = existing[i].id] ELSE existing[i]])

(* Mutant: the builds that are there already are merged as new ones.       *)
ImportMergeAll ==
  /\ NoDialog /\ sbFile # <<>>
  /\ LET taken == {i \in DOMAIN sbFile : sbFile[i].name \in NamesOf(sbStore)}
         conflicts == ElementsAt(sbFile, taken)
         clean == ElementsAt(sbFile, DOMAIN sbFile \ taken)
     IN IF conflicts = <<>>
        THEN /\ sbStore' = Merged(clean, <<>>, sbStore)
             /\ UNCHANGED sbMerge
        ELSE /\ sbMerge' = [conflicts |-> conflicts, clean |-> clean, existing |-> sbStore]
             /\ UNCHANGED sbStore
  /\ UNCHANGED <<sbMarked, sbFile, sbAsk, sbPanel, sbRemote, sbSaves>>

ImportMerge ==
  /\ NoDialog /\ sbFile # <<>>
  /\ LET fresh == {i \in DOMAIN sbFile : sbFile[i].id \notin IdsOf(sbStore)}
         taken == {i \in fresh : sbFile[i].name \in NamesOf(sbStore)}
         conflicts == ElementsAt(sbFile, taken)
         clean == ElementsAt(sbFile, fresh \ taken)
     IN IF conflicts = <<>>
        THEN /\ sbStore' = Merged(clean, <<>>, sbStore)
             /\ UNCHANGED sbMerge
        ELSE /\ sbMerge' = [conflicts |-> conflicts, clean |-> clean, existing |-> sbStore]
             /\ UNCHANGED sbStore
  /\ UNCHANGED <<sbMarked, sbFile, sbAsk, sbPanel, sbRemote, sbSaves>>

(* The choice for each conflict: skip it, overwrite, or add it renamed to a*)
(* name that neither the list nor another renamed build has.               *)
ResolveConflicts ==
  /\ sbMerge # NoMerge
  /\ \E choice \in [DOMAIN sbMerge.conflicts ->
                      {"skip", "overwrite"} \cup (Names \ NamesOf(sbMerge.existing))] :
       /\ \A i, j \in DOMAIN choice : choice[i] = choice[j] /\ choice[i] \in Names => i = j
       /\ LET chosen(K) == ElementsAt([i \in DOMAIN choice |-> i], {i \in DOMAIN choice : choice[i] \in K})
              renamed == [i \in DOMAIN chosen(Names) |->
                            [sbMerge.conflicts[chosen(Names)[i]] EXCEPT
                               !.name = choice[chosen(Names)[i]]]]
              over == [i \in DOMAIN chosen({"overwrite"}) |->
                         sbMerge.conflicts[chosen({"overwrite"})[i]]]
          IN sbStore' = Merged(sbMerge.clean \o renamed, over, sbMerge.existing)
  /\ sbMerge' = NoMerge
  /\ UNCHANGED <<sbMarked, sbFile, sbAsk, sbPanel, sbRemote, sbSaves>>

CancelMerge ==
  /\ sbMerge # NoMerge /\ sbMerge' = NoMerge
  /\ UNCHANGED <<sbStore, sbMarked, sbFile, sbAsk, sbPanel, sbRemote, sbSaves>>

SavedBuildsNext ==
  \/ SaveNew \/ SaveDuplicate \/ ConfirmOverwrite \/ CancelOverwrite \/ DeleteBuild
  \/ PublishSaved \/ TryRepublish \/ RepublishAnswer \/ ConfirmPublish \/ PublishAnswer
  \/ ClosePanel \/ UnlistMine \/ UnlistAnswer
  \/ ExportBackup \/ ImportOverwrite \/ ImportMerge \/ ResolveConflicts \/ CancelMerge

-------------------------------------------------------------------------------
(* Everything is done to a build by its id: whatever is saved, overwritten,*)
(* imported, merged or written back by a late answer, no two builds of the *)
(* list have the same one.                                                 *)
SavedIdsAreDistinct == Cardinality(IdsOf(sbStore)) = Len(sbStore)

(* "Merge into Existing" (lang.js): a merge that skips or overwrites       *)
(* conflicting names takes no other saved build away.                      *)
MergeKeepsSaved ==
  [][ImportMerge \/ ResolveConflicts => IdsOf(sbStore) \subseteq IdsOf(sbStore')]_sbVars
===============================================================================
