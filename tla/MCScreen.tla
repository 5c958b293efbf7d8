------------------------------ MODULE MCScreen ------------------------------
(* Blocks of two pages, so that the window holds four; a screen of three     *)
(* rows of two characters, which takes two pages, the second one in part,    *)
(* and which the prompt and a command line of five characters fill.          *)
EXTENDS Screen

MCBanner == <<"a", "NL">>
MCPrompt == <<"%">>
MCUnknown == <<"?">>
MCClear == <<"a">>
MCTexts == {<<>>, <<"a", "%", "a", "a", "NL">>, <<"BS", "a">>}
\* Unknown, as the shell expects it, smaller, of another shape, and larger.
MCDisplays == {<<0, 0>>, <<2, 3>>, <<2, 2>>, <<3, 2>>, <<5, 4>>}
MCEl0Start == (KBASE + 3) * ENTRIES
MCEl0End == (KBASE + 5) * ENTRIES
MCFbPhys == DMA * ENTRIES + 1
=============================================================================
