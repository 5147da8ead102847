---- MODULE MCHttpProxy ----
\* What browsers may post: commands let through and not, headers in the way.
EXTENDS HttpProxy

MCPosts == {<<Header, Body("get")>>, <<Body("set")>>, <<HeaderWithTo, Body("get")>>,
            <<ShortTo, Body("get")>>}

====
