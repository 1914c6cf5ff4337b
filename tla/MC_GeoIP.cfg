\* Counters against the nick table across load, unload, reload and the
\* hooks, with COUNTRY_MIN = 1 (id 0, GeoIP's unknown, is not counted).
CONSTANTS
    n1 = n1
    n2 = n2
    n3 = n3
    a0 = a0
    a1 = a1
    a2 = a2
    a3 = a3
    v6 = v6
    Nicks <- MC_Nicks
    V4Addrs <- MC_V4
    V6Addrs <- MC_V6
    IpId <- MC_IpId
    CountryCode <- MC_CountryCode
    COUNTRY_MIN = 1
    COUNTRY_MAX = 2
    NoNick = NoNick

SPECIFICATION Spec

INVARIANT TypeOK
INVARIANT TotalsMatchNicks
