---------------------------- MODULE MCMovieTitle ----------------------------
(***************************************************************************)
(* MovieTitle with titles without, with one and with two matched words.    *)
(***************************************************************************)
EXTENDS MovieTitle

TheTitles ==
    { <<"text">>, <<"<b>", "text", "</b>">>, <<"<b>", "text", "</b>", "text">>,
      <<"text", "<b>", "text", "</b>", "text", "<b>", "text", "</b>">> }
=============================================================================
