---------------------------- MODULE MCLcmLogging ----------------------------
EXTENDS LcmLogging

MCUnwanted == {<<2>>}
\* Times that ascend, stand still and descend.
MCArrivals == {<<<<1>>, <<>>, 0>>, <<<<1>>, <<>>, 2>>, <<<<1>>, <<Magic>>, 1>>, <<<<2>>, <<>>, 1>>}
=============================================================================
