------------------------------ MODULE MCServer ------------------------------
(***************************************************************************)
(* Four parts of the server for TLC: an encoder with its listeners, the    *)
(* requests, the news, the lyrics.  As modelled they share no variable, so *)
(* that to let their steps alternate would show nothing more: in each      *)
(* behaviour one part takes all the steps.                                 *)
(***************************************************************************)
EXTENDS Distributor, Requests, News, Lyrics

VARIABLE part

MCInit ==
    /\ part \in {"distributor", "requests", "news", "lyrics"}
    /\ Init /\ RequestsInit /\ NewsInit /\ LyricsInit
    /\ part # "requests" => sources = <<CSN>>

DistributorStep ==
    part = "distributor" /\ Next /\ UNCHANGED <<part, requestsVars, newsVars, lyricsVars>>

RequestsStep ==
    part = "requests" /\ RequestsNext /\ UNCHANGED <<part, vars, newsVars, lyricsVars>>

NewsStep ==
    part = "news" /\ NewsNext /\ UNCHANGED <<part, vars, requestsVars, lyricsVars>>

LyricsStep ==
    part = "lyrics" /\ LyricsNext /\ UNCHANGED <<part, vars, requestsVars, newsVars>>

MCNext == DistributorStep \/ RequestsStep \/ NewsStep \/ LyricsStep

MCFairness ==
    /\ WF_vars(part = "distributor" /\ Encode)
    /\ \A l \in Listener : WF_vars(part = "distributor" /\ Handle(l))

MCSpec == MCInit /\ [][MCNext]_<<part, vars, requestsVars, newsVars, lyricsVars>> /\ MCFairness

\* Every variable is of its type.
ServerTypeOK == TypeOK /\ RequestsTypeOK /\ NewsTypeOK /\ LyricsTypeOK
=============================================================================
