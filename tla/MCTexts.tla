-------------------------------- MODULE MCTexts --------------------------------
(* Model checking of FormParser and Base64, which have nothing to do with    *)
(* each other: a behaviour is one of either.                                 *)
EXTENDS FormParser, Base64

MCLetters == {"a", "b"}
MCWords == {<<"a">>, <<"a", "b">>, <<"b">>}

\* All ones, all zeros, and two bytes whose bits differ from their neighbours'.
MCBytes == {0, 109, 182, 255}

TextsInit == Init /\ Base64Init

FormNext == bytes = << >> /\ ~sent /\ Next /\ UNCHANGED base64Vars

CodecNext == input = << >> /\ format = "body" /\ Base64Next /\ UNCHANGED vars

TextsSpec == TextsInit /\ [][FormNext \/ CodecNext]_<<vars, base64Vars>>

===============================================================================
