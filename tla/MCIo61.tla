-------------------------------- MODULE MCIo61 --------------------------------
EXTENDS Io61Properties
\* An empty file, files of two and three pages and a bit, and a pipe.
Files == {File(0), File(5), File(7), EmptyPipe}
Data  == {<<1>>, <<2, 1>>, <<1, 1, 2, 1, 2>>}
NoBytes == {}
=============================================================================
