CONSTANTS
    daemon = daemon
    cli = cli
    tick = tick
    api = api
    kill = kill
    Venues = {daemon, cli}
    Callers = {tick, api, kill}
    VenueOf <- MCVenueOf
    Placers = {tick, api}
    Watchers = {tick, api}
    Cancellers = {api, kill}
    Signed = {daemon, cli}
    Coins = {"ETH", "NEW"}
    Universe = {"ETH"}
    Intents <- MCIntents
    Lot = 3
    TTL = 2
    Timeout = 1
    MaxOrders = 2
    Streams = {"none", "ws", "feed", "list"}
    Cap = 1
    MaxFrames = 3
    Tracked = {}
    Subnets = 2
    RefNotional = 10
    Prices = {900, 1000}
    Outs = {0, 5, 12}
    MaxPolls = 2
    DefaultMax = 2
    MaxU16 = 3
SPECIFICATION MCSpec
INVARIANTS OneOrderPerIntent AckMatchesOrder ListedIsCancellable CacheIsFresh NothingIsLost
PROPERTIES StreamsEnd
CHECK_DEADLOCK FALSE
