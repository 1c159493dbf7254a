----------------------------- MODULE MCServices -----------------------------
(***************************************************************************)
(* Components that share no variable, checked one after another: the first *)
(* step chooses the one that moves, so that the states of each are visited *)
(* once and not in every combination.  A part that does not move has one   *)
(* initial state.                                                          *)
(***************************************************************************)
EXTENDS MCPatchEngine, RepoMirror, HttpRequest, Config, CheatFiles, CheatPage

CheatFile(kind, folder, version, mentions, own) ==
  [title |-> "title", kind |-> kind, folder |-> folder, version |-> version,
   mentions |-> mentions, own |-> own]
Library(shelf, version) == [shelf |-> shelf, sfo |-> [t \in CheatTitles |-> version]]

\* A game of unknown version, and one whose version a poor format has, after its
\* zeros are dropped, better ones have not, and one of another folder mentions.
MCLibraries ==
  { Library(<<CheatFile(1, 20, <<1>>, {}, TRUE), CheatFile(1, 20, <<1, 2>>, {}, FALSE),
              CheatFile(2, 10, <<3>>, {}, TRUE)>>, <<>>),
    Library(<<CheatFile(3, 0, <<1, 0>>, {}, TRUE), CheatFile(1, 20, <<>>, {<<1>>}, FALSE),
              CheatFile(2, 10, <<2>>, {}, TRUE)>>, <<1>>) }
AllFiles == {CheatFileIds}

\* Files edited by hand: every combination of buttons, a number that is out of
\* range, every theme.
MCEdits ==
  {[Defaults EXCEPT !.a = x, !.b = y] : x, y \in Buttons \cup {NotAButton}}
    \cup {[Defaults EXCEPT !.number = n, !.port = 1, !.level = "info"] : n \in Numbers}
    \cup {[Defaults EXCEPT !.theme = t] : t \in Themes}

VARIABLE part

ServicesInit ==
  /\ part \in {"patches", "mirror", "request", "config", "files", "page"}
  /\ Init /\ MirrorInit /\ RequestInit /\ ConfigInit /\ FilesInit /\ PageInit
  /\ part # "patches" => fault = NoFault
  /\ part # "files" => library = CHOOSE l \in Libraries : TRUE
  /\ part # "page" => /\ cheat = [known |-> {}, master |-> "none", suspect |-> FALSE,
                                  safeguards |-> FALSE]
                      /\ \A e \in PageEntries : ranges[e] = "off"

ServicesNext ==
  \/ part = "patches" /\ Next
     /\ UNCHANGED <<part, mirrorVars, requestVars, configVars, fileVars, pageVars>>
  \/ part = "mirror" /\ MirrorNext
     /\ UNCHANGED <<part, vars, requestVars, configVars, fileVars, pageVars>>
  \/ part = "request" /\ RequestNext
     /\ UNCHANGED <<part, vars, mirrorVars, configVars, fileVars, pageVars>>
  \/ part = "config" /\ ConfigNext
     /\ UNCHANGED <<part, vars, mirrorVars, requestVars, fileVars, pageVars>>
  \/ part = "files" /\ FilesNext
     /\ UNCHANGED <<part, vars, mirrorVars, requestVars, configVars, pageVars>>
  \/ part = "page" /\ PageNext
     /\ UNCHANGED <<part, vars, mirrorVars, requestVars, configVars, fileVars>>

Services ==
  ServicesInit
  /\ [][ServicesNext]_<<part, vars, mirrorVars, requestVars, configVars, fileVars, pageVars>>

ServiceSymmetry == Permutations(Threads) \cup Permutations(Pollers)

\* Every variable of every part has its type.
ServicesTypeOK == MirrorTypeOK /\ RequestTypeOK /\ ConfigTypeOK /\ FilesTypeOK /\ PageTypeOK
=============================================================================
