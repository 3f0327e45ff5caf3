----------------------------- MODULE MCKeyboard -----------------------------
EXTENDS Keyboard

MCCommands == << <<"a">>, <<"a", "a">> >>
=============================================================================
