------------------------------ MODULE MCFiles ------------------------------
EXTENDS FileCommands

MCNames == {"/", "bin", "etc", "home", "tmp", "motd.txt", "a", "b", ".", ".."}

MCMotd == <<"m">>

\* One text that leaves room for the newline and one that does not.
MCWords == {<<"x">>, <<"y", "y", "y">>}

NotDone == <<used, node, next_inode, current_directory>>

\* An absolute path below a directory and the directory, a bare name, a path
\* through the parent, ".", and a trailing slash.
MCArgs == {<<"", "home", "a">>, <<"", "home">>, <<"a">>, <<"..", "etc", "motd.txt">>,
           <<".">>, <<"a", "">>}
============================================================================
