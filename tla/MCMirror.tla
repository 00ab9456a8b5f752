------------------------------ MODULE MCMirror ------------------------------
(***************************************************************************)
(* The write queue under fairness, for TLC.  A behaviour is about one of   *)
(* two things: the note, which is written, edited and copied by the note   *)
(* sync and the watcher, or the cards, whose jobs compete for a batch of   *)
(* one while requests keep coming, all for one pocket, and nobody edits in *)
(* the Crew app.                                                           *)
(***************************************************************************)
EXTENDS WriteQueue

VARIABLE about

NoteOnly == (\A t \in Cards : job'[t] = job[t]) /\ crew'[Spend] = crew[Spend]

CardsOnly ==
    /\ App
    /\ \A t \in Notes : job'[t] = job[t] /\ crew'[t] = crew[t]
    /\ \A r \in Drainers : page'[r] = page[r]
    /\ \A t \in Cards : job'[t].id # 0 => job'[t].value # Blank

MirrorInit == Init /\ about \in {"note", "cards"}

MirrorNext ==
    /\ Next
    /\ IF about = "note" THEN NoteOnly ELSE CardsOnly
    /\ UNCHANGED about

MirrorSpec ==
    /\ MirrorInit
    /\ [][MirrorNext]_<<vars, about>>
    /\ DrainFairness
    /\ about = "note" => SyncFairness
=============================================================================
