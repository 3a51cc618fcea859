------------------------------ MODULE MCOutput ------------------------------
(***************************************************************************)
(* What becomes of a text the library writes: the destinations hold it,    *)
(* and RoundTrip has it come back.  The array of the bounded destination   *)
(* has three bytes, the bytes are a letter and a line feed; the trees are  *)
(* those of MCRoundTrip.                                                   *)
(*                                                                         *)
(* The two share no state.  A behaviour is one of the one or of the other, *)
(* and the part it does not look at stays as it was made.                  *)
(***************************************************************************)
EXTENDS Destinations, MCRoundTrip

fileDestination ==
    <<file, isOpen, good, fileSize, lastChar, status, given, dropped, astray>>

NoDocuments ==
    /\ docs = <<>> /\ meant = <<>> /\ text = <<>>
    /\ accepted = TRUE
    /\ phase = "nothing"
    /\ how = "nobody"

\* For RoundTrip one state of the destinations will do.
OutputInit ==
    /\ DestinationsInit
    /\ NoDocuments \/ (RoundTripInit /\ isOpen)

OutputNext ==
    \/ phase = "nothing" /\ DestinationsNext /\ UNCHANGED roundTrip
    \/ RoundTripNext /\ UNCHANGED <<vars, others, fileDestination>>

OutputSpec == OutputInit /\ [][OutputNext]_<<destinations, roundTrip>>
=============================================================================
