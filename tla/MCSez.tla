------------------------------- MODULE MCSez -------------------------------
\* Sez with lists in which an auto-detected channel may be found twice.
EXTENDS Sez

MCInterfaces == {<<>>, <<FALSE>>, <<TRUE>>, <<TRUE, FALSE, TRUE>>}
MCChLists == {<<>>, <<7>>, <<2, 7, 2, 9>>}
=============================================================================
