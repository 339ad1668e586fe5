----------------------------- MODULE MCProtocol -----------------------------
EXTENDS Protocol

CONSTANTS o1, o2, o3

MCObjects == {o1, o2, o3}

\* An empty repository, one with an index the client would like to know, and
\* one where two indexes overlap.
MCFirstIdxs == {{}, {{o1, o2}}, {{o1, o2}, {o2, o3}}}
MCOtherIdxs == {{o2, o3}}
=============================================================================
